---- MODULE Spec2Model ----
(***************************************************************************)
(* llmux: the routing and streaming substrate.                             *)
(*                                                                         *)
(* The model covers the Node router (src/src/router.ts) over the provider  *)
(* client (src/src/providers/base.ts), the Workers router                  *)
(* (src/workers/src/router.ts) over its provider client, the HTTP handlers *)
(* that drive them (src/src/routes/health.ts) and the OpenResponses stream *)
(* emitter streamToEvents (src/src/adapters/openai-adapter.ts).            *)
(*                                                                         *)
(* One request is in flight at a time; the upstream providers are the      *)
(* environment and answer nondeterministically.                            *)
(***************************************************************************)
EXTENDS Integers, Sequences, FiniteSets, TLC

\* ------------------------------------------------------------------------
\* Bounds of the model
\* ------------------------------------------------------------------------

\* the number of chunks the upstreams deliver for one request, at most
MaxChunks == 3

\* ------------------------------------------------------------------------
\* Values
\* ------------------------------------------------------------------------

\* JavaScript's null / undefined for string-valued fields
Null == "null"

\* an unset configuration option
Unset == <<"unset">>

\* Map.get of a key that was never set, and the NaN that (i + 1) % 0 yields
Absent == -1
NaN == -2

\* the providers, in configuration order
ProviderNames == <<"groq", "together", "cerebras">>

ProviderSet == {ProviderNames[i] : i \in DOMAIN ProviderNames}

\* the models each provider lists
ProviderModels(p) ==
    CASE p = "groq" -> {"llama-3.1-70b-versatile", "llama-3.1-8b-instant", "mixtral-8x7b-32768"}
      [] p = "together" -> {"meta-llama/Llama-3.1-70B-Instruct-Turbo", "meta-llama/Llama-3.1-8B-Instruct-Turbo"}
      [] p = "cerebras" -> {"llama3.1-70b", "llama3.1-8b"}
      [] OTHER -> {}

\* the alias table: friendly model -> provider -> native model (Null: no entry)
MODEL_ALIASES(model, p) ==
    CASE model = "llama-70b" /\ p = "groq" -> "llama-3.1-70b-versatile"
      [] model = "llama-70b" /\ p = "together" -> "meta-llama/Llama-3.1-70B-Instruct-Turbo"
      [] model = "llama-70b" /\ p = "cerebras" -> "llama3.1-70b"
      [] model = "llama-8b" /\ p = "groq" -> "llama-3.1-8b-instant"
      [] model = "llama-8b" /\ p = "together" -> "meta-llama/Llama-3.1-8B-Instruct-Turbo"
      [] model = "llama-8b" /\ p = "cerebras" -> "llama3.1-8b"
      [] OTHER -> Null

\* the models requests ask for: an alias every provider resolves, and a
\* native name only groq lists
RequestModels == {"llama-70b", "mixtral-8x7b-32768"}

\* ------------------------------------------------------------------------
\* Sequences
\* ------------------------------------------------------------------------

\* Array.prototype.slice(from, to) with 0-based, end-exclusive indices
Slice(s, from, to) ==
    LET f == IF from > Len(s) THEN Len(s) ELSE from
        t == IF to > Len(s) THEN Len(s) ELSE to
    IN  IF f >= t THEN <<>> ELSE SubSeq(s, f + 1, t)

\* Array.prototype.filter
RECURSIVE Filter(_, _)
Filter(s, keep) ==
    IF s = <<>> THEN <<>>
    ELSE (IF Head(s) \in keep THEN <<Head(s)>> ELSE <<>>) \o Filter(Tail(s), keep)

Range(s) == {s[i] : i \in DOMAIN s}

\* every arrangement of the elements of s
Permutations_(s) ==
    {p \in [DOMAIN s -> Range(s)] :
        \A x \in Range(s) :
            Cardinality({i \in DOMAIN s : p[i] = x}) = Cardinality({i \in DOMAIN s : s[i] = x})}

\* ------------------------------------------------------------------------
\* Configuration
\* ------------------------------------------------------------------------

\* A deployment: the implementation that serves it (the Node server or the
\* Workers script), the providers that are enabled (Node: enabled with an
\* API key; Workers: the API key is in the environment), the routing
\* strategy and the fallback chain.
Strategies == {"round-robin", "random", "first-available"}

FallbackChains == {<<"groq", "together", "cerebras">>, <<"together", "groq">>, Unset}

\* CacheConfig: enabled and the backend ("kv": the Workers' env.CACHE binding)
CacheConfig(enabled, backend) == [enabled |-> enabled, backend |-> backend]

CacheOff == CacheConfig(FALSE, "memory")

\* the deployments with caching off
Configs ==
    {c \in [impl : {"node", "workers"}, enabled : SUBSET ProviderSet,
            strategy : Strategies, fallback_chain : FallbackChains,
            cache : {CacheOff}] :
        \* validateConfig: the Node server does not start without an enabled provider
        c.impl = "node" => c.enabled # {}}

\* ------------------------------------------------------------------------
\* State
\* ------------------------------------------------------------------------

VARIABLES
    config,           \* the deployment's configuration, immutable after startup
    registry,         \* ProviderRegistry.providers: the names registered, in
                      \* the order they were set
    roundRobinIndex,  \* Router.roundRobinIndex: model -> counter
    pc,               \* "idle", "await" (an upstream call is pending), "stream", "done"
    req,              \* the request in flight
    providerOrder,    \* the candidate list getProviderOrder returned for it
    idx,              \* the position in providerOrder of the candidate in use
    lastError,        \* routeChatCompletion's lastError (<<>>: null)
    calls,            \* the upstream calls made for this request, in order
    errors,           \* the errors those calls ended with, in order
    out,              \* the chunks the streaming router yielded to its caller
    result,           \* what the router returned or threw
    reply,            \* the HTTP status and body the client got
    written,          \* the SSE frames written to the client
    ended,            \* reply.raw.end() was called
    emitter,          \* streamToEvents' local state
    store,            \* the cache backend's content: a set of [key, value]
    cacheOps,         \* history: the backend operations made for this request
    cached,           \* what cache.get returned to the handler
    heads,            \* history: per model, the providers at position 0 of the
                      \* latest candidate orders round-robin returned, at most
                      \* as many as there were candidates
    body,             \* the network chunks read from the upstream response body
                      \* when the provider client is driven on its own
    responseStore,    \* ResponseStore.cache: the entries, least recently used first
    issued,           \* history: the number of responses stored so far; the
                      \* n-th of them has the id n
    normalizedInput,  \* the /v1/responses handler's normalizedInput
    disconnected,     \* the client has closed the connection of the request in flight
    streams,          \* the running streamToEvents calls when several are
                      \* served at once: of each its locals and the events
                      \* it has yielded
    flights           \* the requests in flight when several are served at
                      \* once: of each the handler's position and locals

routerVars == <<roundRobinIndex, pc, req, providerOrder, idx, lastError, calls,
                errors, out, result>>

clientVars == <<reply, written, ended>>

cacheVars == <<store, cacheOps, cached>>

storeVars == <<responseStore, issued, normalizedInput>>

vars == <<config, registry, routerVars, clientVars, emitter, cacheVars, heads, body, storeVars,
          disconnected, streams, flights>>

\* ------------------------------------------------------------------------
\* Provider registry and model aliases
\* ------------------------------------------------------------------------

\* ProviderRegistry.has
registryHas(cfg, name) == name \in cfg.enabled

\* Workers: the enabled providers, in the order of PROVIDER_CONFIGS
getEnabledProviders(cfg) == Filter(ProviderNames, cfg.enabled)

\* Router.resolveModelAlias and the Workers' resolveModelAlias
resolveModelAlias(model, providerName) ==
    IF MODEL_ALIASES(model, providerName) # Null
    THEN MODEL_ALIASES(model, providerName)
    ELSE model

\* mutant: the check of the model list is missing
supportsModel_Any(p, model) == TRUE

\* BaseProvider.supportsModel and the Workers' providerSupportsModel
supportsModel(p, model) == model \in ProviderModels(p)

\* ------------------------------------------------------------------------
\* Candidate ordering
\* ------------------------------------------------------------------------

\* roundRobinIndex.get(key) || 0
rrGet(rr, key) == IF rr[key] \in {Absent, NaN} THEN 0 ELSE rr[key]

\* JavaScript's a % n
JsMod(a, n) == IF n = 0 THEN NaN ELSE a % n

\* mutant: the counter is written back without the increment
roundRobinOrder_NoIncrement(providers, model, rr) ==
    LET currentIndex == rrGet(rr, model)
        rotated == Slice(providers, currentIndex, Len(providers))
                   \o Slice(providers, 0, currentIndex)
    IN  [order |-> rotated,
         rr |-> [rr EXCEPT ![model] = JsMod(currentIndex, Len(providers))],
         error |-> <<>>]

\* Router.roundRobinOrder: the rotated list and the updated counters
roundRobinOrder(providers, model, rr) ==
    LET currentIndex == rrGet(rr, model)
        rotated == Slice(providers, currentIndex, Len(providers))
                   \o Slice(providers, 0, currentIndex)
    IN  [order |-> rotated,
         rr |-> [rr EXCEPT ![model] = JsMod(currentIndex + 1, Len(providers))],
         error |-> <<>>]

Min(a, b) == IF a < b THEN a ELSE b

\* Router.shuffleArray: Fisher-Yates with Math.random, any arrangement
shuffleArray(array) == Permutations_(array)

\* Router.getProviderOrder without an explicit provider: the fallback chain
\* filtered to the registered providers, ordered by the strategy
orderByStrategy(cfg, rr, request) ==
    IF cfg.fallback_chain = Unset
    THEN \* fallbackChain.filter on undefined
         {[order |-> <<>>, rr |-> rr,
           error |-> <<"TypeError: Cannot read properties of undefined">>]}
    ELSE LET availableProviders == Filter(cfg.fallback_chain, cfg.enabled)
         IN  CASE cfg.strategy = "round-robin" ->
                    {roundRobinOrder(availableProviders, request.model, rr)}
               [] cfg.strategy = "random" ->
                    {[order |-> o, rr |-> rr, error |-> <<>>] :
                        o \in shuffleArray(availableProviders)}
               [] OTHER ->
                    {[order |-> availableProviders, rr |-> rr, error |-> <<>>]}

\* mutant: request.provider is not looked at
getProviderOrder_IgnoreProvider(cfg, rr, request) == orderByStrategy(cfg, rr, request)

\* Router.getProviderOrder: the possible outcomes, each the candidate list,
\* the counters afterwards and the error thrown (<<>>: none)
getProviderOrder(cfg, rr, request) ==
    IF request.provider # Null
    THEN {[order |-> IF registryHas(cfg, request.provider)
                     THEN <<request.provider>> ELSE <<>>,
           rr |-> rr, error |-> <<>>]}
    ELSE orderByStrategy(cfg, rr, request)

\* Workers getProviderOrder over the enabled providers
W_getProviderOrder(providers, request, cfg, rr) ==
    IF request.provider # Null
    THEN {[order |-> IF request.provider \in Range(providers)
                     THEN <<request.provider>> ELSE <<>>,
           rr |-> rr, error |-> <<>>]}
    ELSE LET fallbackChain == IF cfg.fallback_chain = Unset
                              THEN providers ELSE cfg.fallback_chain
             ordered == Filter(fallbackChain, Range(providers))
         IN  CASE cfg.strategy = "random" ->
                    {[order |-> o, rr |-> rr, error |-> <<>>] :
                        o \in shuffleArray(ordered)}
               [] cfg.strategy = "round-robin" ->
                    LET i == rrGet(rr, request.model)
                    IN  {[order |-> Slice(ordered, i, Len(ordered)) \o Slice(ordered, 0, i),
                          rr |-> [rr EXCEPT ![request.model] = JsMod(i + 1, Len(ordered))],
                          error |-> <<>>]}
               [] OTHER ->
                    {[order |-> ordered, rr |-> rr, error |-> <<>>]}

\* ------------------------------------------------------------------------
\* Provider client
\* ------------------------------------------------------------------------

\* What an upstream answers to POST /chat/completions: the connection fails
\* (net), or it answers with a status and a body that is JSON or not; a
\* JSON body may carry a provider field of its own.
Answer(net, status, json, provider) ==
    [net |-> net, status |-> status, json |-> json, provider |-> provider,
     choices |-> <<>>]

Answers ==
    {Answer(FALSE, "200", TRUE, Null),
     Answer(FALSE, "200", TRUE, "upstream"),
     Answer(FALSE, "200", FALSE, Null),
     Answer(FALSE, "201", TRUE, Null),
     Answer(FALSE, "503", FALSE, Null),
     Answer(TRUE, "000", FALSE, Null)}

\* no response; choices are the choices of a ChatCompletionResponse
NoResponse == [model |-> Null, provider |-> Null, choices |-> <<>>]

\* the fields of a ChatCompletionRequest
ChatFields ==
    {"model", "messages", "temperature", "top_p", "max_tokens", "stream", "stop",
     "presence_penalty", "frequency_penalty", "user", "provider", "cache"}

\* const { provider: _, cache: __, ...providerRequest } = req
providerRequest(request) ==
    [f \in (DOMAIN request \cap ChatFields) \ {"provider", "cache"} |-> request[f]]

\* mutant: the request is forwarded as it was received
upstreamBody_AsReceived(request, stream) ==
    [f \in {g \in DOMAIN request \cap ChatFields : g = "stream" \/ request[g] # Null}
        |-> request[f]]

\* JSON.stringify({ ...providerRequest, stream }): the fields that are set,
\* and stream as the client function fixes it
upstreamBody(request, stream) ==
    LET rest == providerRequest(request)
        present == {f \in DOMAIN rest \ {"stream"} : rest[f] # Null}
    IN  [f \in present \cup {"stream"} |-> IF f = "stream" THEN stream ELSE rest[f]]

\* a call of the provider client: stream is the function called (false:
\* chatCompletion / callProvider, true: chatCompletionStream / streamProvider),
\* body the JSON body it posts
ClientCall(p, request, stream) ==
    [provider |-> p, model |-> request.model, stream |-> stream,
     body |-> upstreamBody(request, stream)]

\* the request a provider client is called with: {...request, model: resolvedModel}
UpstreamCall(p, request) ==
    ClientCall(p, [request EXCEPT !.model = resolveModelAlias(request.model, p)],
               request.stream)

\* mutant: the parsed body is returned as the upstream sent it
chatCompletion_NoStamp(name, call, a) ==
    IF a.net THEN [ok |-> FALSE, response |-> NoResponse, error |-> <<"fetch failed">>]
    ELSE IF a.status # "200"
    THEN [ok |-> FALSE, response |-> NoResponse,
          error |-> <<"Provider", name, "returned", a.status>>]
    ELSE IF ~a.json
    THEN [ok |-> FALSE, response |-> NoResponse, error |-> <<"SyntaxError: Unexpected token">>]
    ELSE [ok |-> TRUE, response |-> [model |-> call.model, provider |-> a.provider, choices |-> a.choices],
          error |-> <<>>]

\* BaseProvider.chatCompletion: the response returned, or the error thrown
chatCompletion(name, call, a) ==
    IF a.net THEN [ok |-> FALSE, response |-> NoResponse, error |-> <<"fetch failed">>]
    ELSE IF a.status # "200"
    THEN [ok |-> FALSE, response |-> NoResponse,
          error |-> <<"Provider", name, "returned", a.status>>]
    ELSE IF ~a.json
    THEN [ok |-> FALSE, response |-> NoResponse, error |-> <<"SyntaxError: Unexpected token">>]
    ELSE [ok |-> TRUE,
          response |-> [[model |-> call.model, provider |-> a.provider, choices |-> a.choices]
                            EXCEPT !.provider = name],
          error |-> <<>>]

\* BaseProvider.chatCompletionStream up to the status check: the body stream
\* is handed over, or the error is thrown
chatCompletionStream(name, call, a) ==
    IF a.net THEN [ok |-> FALSE, response |-> NoResponse, error |-> <<"fetch failed">>]
    ELSE IF a.status # "200"
    THEN [ok |-> FALSE, response |-> NoResponse,
          error |-> <<"Provider", name, "returned", a.status>>]
    ELSE [ok |-> TRUE, response |-> NoResponse, error |-> <<>>]

\* Workers callProvider: response.ok is any 2xx status
callProvider(name, call, a) ==
    IF a.net THEN [ok |-> FALSE, response |-> NoResponse, error |-> <<"fetch failed">>]
    ELSE IF a.status \notin {"200", "201"}
    THEN [ok |-> FALSE, response |-> NoResponse,
          error |-> <<"Provider", name, "error:", a.status>>]
    ELSE IF ~a.json
    THEN [ok |-> FALSE, response |-> NoResponse, error |-> <<"SyntaxError: Unexpected token">>]
    ELSE [ok |-> TRUE,
          response |-> [[model |-> call.model, provider |-> a.provider, choices |-> a.choices]
                            EXCEPT !.provider = name],
          error |-> <<>>]

\* Workers streamProvider
streamProvider(name, call, a) ==
    IF a.net THEN [ok |-> FALSE, response |-> NoResponse, error |-> <<"fetch failed">>]
    ELSE IF a.status \notin {"200", "201"}
    THEN [ok |-> FALSE, response |-> NoResponse,
          error |-> <<"Provider", name, "stream error:", a.status>>]
    ELSE [ok |-> TRUE, response |-> NoResponse, error |-> <<>>]

\* the provider client the router of this deployment and mode calls
Invoke(cfg, name, call, a) ==
    CASE cfg.impl = "node" /\ ~call.stream -> chatCompletion(name, call, a)
      [] cfg.impl = "node" /\ call.stream -> chatCompletionStream(name, call, a)
      [] cfg.impl = "workers" /\ ~call.stream -> callProvider(name, call, a)
      [] OTHER -> streamProvider(name, call, a)

\* ------------------------------------------------------------------------
\* Chunks and client frames
\* ------------------------------------------------------------------------

\* one entry of delta.tool_calls (Null, <<>>: the field is absent)
ToolCallDelta(id, name, arguments) == [id |-> id, name |-> name, arguments |-> arguments]

\* one entry of chunk.choices; texts are sequences of characters, and an
\* absent, null or empty content is <<>>
Choice(tool_calls, content, finish_reason) ==
    [tool_calls |-> tool_calls, content |-> content, finish_reason |-> finish_reason]

\* a chunk is the sequence of its choices
Choices ==
    {Choice(<<ToolCallDelta("call_1", "f", <<>>)>>, <<>>, Null),
     Choice(<<ToolCallDelta(Null, Null, <<"x">>)>>, <<>>, Null),
     Choice(<<ToolCallDelta("call_2", "g", <<"y">>)>>, <<>>, Null),
     Choice(<<>>, <<"a">>, Null),
     Choice(<<>>, <<"b">>, Null),
     Choice(<<>>, <<"a">>, "stop"),
     Choice(<<>>, <<>>, "stop")}

\* the chunks an upstream sends on a /v1/responses stream: no choice (a
\* usage chunk), one choice, or two choices (n = 2)
ResponsesChunks ==
    {<<>>} \cup {<<c>> : c \in Choices}
    \cup {<<Choice(<<>>, <<"a">>, "stop"), Choice(<<>>, <<"b">>, "stop")>>}

\* the chunks an upstream sends on a /v1/chat/completions stream
ChatChunks == {<<Choice(<<>>, <<"a">>, Null)>>, <<Choice(<<>>, <<>>, "stop")>>}

\* A frame written to the client: an OpenResponses event, or on the
\* Chat-Completions stream a data frame ("chunk"), an error frame ("error"),
\* and on both the terminator ("[DONE]").  Fields that a frame does not
\* have are -1, "none", <<>>; output, response_id and status are those of
\* the Response an event carries.
Event(type, seq, oi, item, item_id, payload) ==
    [type |-> type, sequence_number |-> seq, output_index |-> oi, item |-> item,
     item_id |-> item_id, payload |-> payload, output |-> <<>>,
     response_id |-> -1, status |-> "none", chunk |-> <<>>]

ChunkFrame(chunk) == [Event("chunk", -1, -1, "none", "none", <<>>) EXCEPT !.chunk = chunk]

ErrorFrame(message) == Event("error", -1, -1, "none", "none", message)

DoneFrame == Event("[DONE]", -1, -1, "none", "none", <<>>)

\* ------------------------------------------------------------------------
\* The SSE parser of chatCompletionStream
\* ------------------------------------------------------------------------

\* A text is a sequence of tokens: "LF" and "CR" the line ends, "SP" a
\* space, "data:" and ":" the field name and the colon, "[DONE]" the
\* terminator, "{a}" and "{b}" the JSON texts of two chunks, "{x" a JSON
\* text cut short, "ping" any other word.
Whitespace == {"SP", "CR"}

\* the chunk a well-formed JSON text stands for
ChunkOfText(t) ==
    IF t = "{a}" THEN <<Choice(<<>>, <<"a">>, Null)>> ELSE <<Choice(<<>>, <<>>, "stop")>>

\* JSON.parse: one JSON value, whitespace around it allowed
JSONparse(jsonStr) ==
    LET t == SelectSeq(jsonStr, LAMBDA x : x \notin Whitespace)
    IN  IF Len(t) = 1 /\ t[1] \in {"{a}", "{b}"}
        THEN [ok |-> TRUE, value |-> ChunkOfText(t[1])]
        ELSE [ok |-> FALSE, value |-> <<>>]

RECURSIVE split(_, _, _)
\* buffer.split('\n'): cur is the line being read, acc the lines before it
split(text, cur, acc) ==
    IF text = <<>> THEN Append(acc, cur)
    ELSE IF Head(text) = "LF" THEN split(Tail(text), <<>>, Append(acc, cur))
    ELSE split(Tail(text), Append(cur, Head(text)), acc)

RECURSIVE trimStart(_)
trimStart(line) ==
    IF line # <<>> /\ Head(line) \in Whitespace THEN trimStart(Tail(line)) ELSE line

RECURSIVE trimEnd(_)
trimEnd(line) ==
    IF line # <<>> /\ line[Len(line)] \in Whitespace
    THEN trimEnd(SubSeq(line, 1, Len(line) - 1))
    ELSE line

\* line.trim()
trim(line) == trimEnd(trimStart(line))

\* trimmed.startsWith('data: ')
startsWithData(trimmed) ==
    Len(trimmed) >= 2 /\ trimmed[1] = "data:" /\ trimmed[2] = "SP"

\* the generator's locals before the first network chunk
ParserInit == [buffer |-> <<>>, yielded |-> <<>>, returned |-> FALSE]

\* mutant: a data line that does not parse ends the stream
parseLine_StopOnMalformed(line, st) ==
    LET trimmed == trim(line)
    IN  IF trimmed = <<>> \/ Head(trimmed) = ":" THEN st
        ELSE IF trimmed = <<"data:", "SP", "[DONE]">> THEN [st EXCEPT !.returned = TRUE]
        ELSE IF startsWithData(trimmed)
        THEN LET parsed == JSONparse(SubSeq(trimmed, 3, Len(trimmed)))
             IN  IF parsed.ok
                 THEN [st EXCEPT !.yielded = Append(st.yielded, parsed.value)]
                 ELSE [st EXCEPT !.returned = TRUE]
        ELSE st

\* the body of for (const line of lines)
parseLine(line, st) ==
    LET trimmed == trim(line)
    IN  IF trimmed = <<>> \/ Head(trimmed) = ":" THEN st
        ELSE IF trimmed = <<"data:", "SP", "[DONE]">> THEN [st EXCEPT !.returned = TRUE]
        ELSE IF startsWithData(trimmed)
        THEN LET parsed == JSONparse(SubSeq(trimmed, 3, Len(trimmed)))
             IN  IF parsed.ok
                 THEN [st EXCEPT !.yielded = Append(st.yielded, parsed.value)]
                 ELSE st
        ELSE st

RECURSIVE parseLines(_, _)
\* for (const line of lines), left by the return at [DONE]
parseLines(lines, st) ==
    IF lines = <<>> \/ st.returned THEN st
    ELSE parseLines(Tail(lines), parseLine(Head(lines), st))

\* the body of for await (const chunk of response.body)
onBodyChunk(st, chunk) ==
    LET lines == split(st.buffer \o chunk, <<>>, <<>>)
    IN  parseLines(SubSeq(lines, 1, Len(lines) - 1),
                   [st EXCEPT !.buffer = lines[Len(lines)]])

RECURSIVE parseBody(_, _)
\* the parser after the network chunks read so far
parseBody(chunks, st) ==
    IF chunks = <<>> \/ st.returned THEN st
    ELSE parseBody(Tail(chunks), onBodyChunk(st, Head(chunks)))

\* ------------------------------------------------------------------------
\* streamToEvents
\* ------------------------------------------------------------------------

\* the generator's locals before its first statement
EmitterInit ==
    [sequenceNumber |-> 0, responseId |-> 0, messageId |-> "msg_1",
     currentFunctionCallId |-> Null, currentCallId |-> Null,
     currentFunctionName |-> Null, accumulatedText |-> <<>>,
     accumulatedArguments |-> <<>>, outputIndex |-> 0,
     messageEmitted |-> FALSE, functionCallEmitted |-> FALSE]

\* the locals once `const responseId = generateId('resp')` has run; the
\* ids of responses are numbers, and the n-th response that comes to be
\* stored has the id n
NewEmitter(id) == [EmitterInit EXCEPT !.responseId = id]

\* A run of the generator is its locals (st) and the events it has yielded
\* since the run record was made (ev).

\* yield an event with sequence_number: sequenceNumber++
Yield(r, type, oi, item, item_id, payload) ==
    [st |-> [r.st EXCEPT !.sequenceNumber = @ + 1],
     ev |-> Append(r.ev, Event(type, r.st.sequenceNumber, oi, item, item_id, payload))]

\* yield response.created / response.in_progress with initialResponse, or
\* response.completed with finalResponse
YieldResponse(r, type, output) ==
    [st |-> [r.st EXCEPT !.sequenceNumber = @ + 1],
     ev |-> Append(r.ev,
                [Event(type, r.st.sequenceNumber, -1, "none", "none", <<>>)
                    EXCEPT !.output = output, !.response_id = r.st.responseId,
                           !.status = IF type = "response.completed"
                                      THEN "completed" ELSE "in_progress"])]

\* mutant: response.in_progress is yielded first
EmitOpen_InProgressFirst(st) ==
    YieldResponse(YieldResponse([st |-> st, ev |-> <<>>], "response.in_progress", <<>>),
                  "response.created", <<>>)

\* the first two events, yielded before the first chunk is pulled
EmitOpen(st) ==
    YieldResponse(YieldResponse([st |-> st, ev |-> <<>>], "response.created", <<>>),
                  "response.in_progress", <<>>)

FunctionCallActive(st) ==
    st.currentFunctionCallId # Null /\ st.currentCallId # Null /\ st.currentFunctionName # Null

\* generateId('fc') where the function call of tool call d is opened: a
\* fresh id, here named after the tool call it is made for
FunctionCallId(d) ==
    CASE d.id = "call_1" -> "fc_1"
      [] d.id = "call_2" -> "fc_2"
      [] OTHER -> "fc_3"

\* mutant: every tool call delta with a name opens a function call
OnToolCallDelta_Reopen(r, d) ==
    LET r1 == IF d.name # Null
              THEN LET s1 == [r.st EXCEPT
                                 !.currentFunctionCallId = FunctionCallId(d),
                                 !.currentCallId = IF d.id # Null THEN d.id ELSE "call_gen",
                                 !.currentFunctionName = d.name,
                                 !.accumulatedArguments = <<>>]
                       y == Yield([st |-> s1, ev |-> r.ev], "response.output_item.added",
                                  s1.outputIndex, "function_call", s1.currentFunctionCallId, <<>>)
                   IN  [y EXCEPT !.st.functionCallEmitted = TRUE]
              ELSE r
    IN  IF d.arguments # <<>> /\ r1.st.currentFunctionCallId # Null /\ r1.st.currentCallId # Null
        THEN Yield([r1 EXCEPT !.st.accumulatedArguments = @ \o d.arguments],
                   "response.function_call_arguments.delta", r1.st.outputIndex,
                   "function_call", r1.st.currentFunctionCallId, d.arguments)
        ELSE r1

\* one toolCallDelta of delta.tool_calls
OnToolCallDelta(r, d) ==
    LET r1 == IF d.name # Null /\ ~r.st.functionCallEmitted
              THEN LET s1 == [r.st EXCEPT
                                 !.currentFunctionCallId = FunctionCallId(d),
                                 !.currentCallId = IF d.id # Null THEN d.id ELSE "call_gen",
                                 !.currentFunctionName = d.name,
                                 !.accumulatedArguments = <<>>]
                       y == Yield([st |-> s1, ev |-> r.ev], "response.output_item.added",
                                  s1.outputIndex, "function_call", s1.currentFunctionCallId, <<>>)
                   IN  [y EXCEPT !.st.functionCallEmitted = TRUE]
              ELSE r
    IN  IF d.arguments # <<>> /\ r1.st.currentFunctionCallId # Null /\ r1.st.currentCallId # Null
        THEN Yield([r1 EXCEPT !.st.accumulatedArguments = @ \o d.arguments],
                   "response.function_call_arguments.delta", r1.st.outputIndex,
                   "function_call", r1.st.currentFunctionCallId, d.arguments)
        ELSE r1

RECURSIVE OnToolCalls(_, _)
OnToolCalls(r, tool_calls) ==
    IF tool_calls = <<>> THEN r
    ELSE OnToolCalls(OnToolCallDelta(r, Head(tool_calls)), Tail(tool_calls))

\* mutant: accumulatedText = delta.content in place of +=
OnContent_Overwrite(r, content) ==
    IF content = <<>> THEN r
    ELSE LET r1 == IF ~r.st.messageEmitted
                   THEN LET y1 == Yield(r, "response.output_item.added", r.st.outputIndex,
                                        "message", r.st.messageId, <<>>)
                            y2 == Yield(y1, "response.content_part.added", r.st.outputIndex,
                                        "message", r.st.messageId, <<>>)
                        IN  [y2 EXCEPT !.st.messageEmitted = TRUE]
                   ELSE r
             r2 == [r1 EXCEPT !.st.accumulatedText = content]
         IN  Yield(r2, "response.output_text.delta", r2.st.outputIndex,
                   "message", r2.st.messageId, content)

\* if (delta.content) { ... }
OnContent(r, content) ==
    IF content = <<>> THEN r
    ELSE LET r1 == IF ~r.st.messageEmitted
                   THEN LET y1 == Yield(r, "response.output_item.added", r.st.outputIndex,
                                        "message", r.st.messageId, <<>>)
                            y2 == Yield(y1, "response.content_part.added", r.st.outputIndex,
                                        "message", r.st.messageId, <<>>)
                        IN  [y2 EXCEPT !.st.messageEmitted = TRUE]
                   ELSE r
             r2 == [r1 EXCEPT !.st.accumulatedText = @ \o content]
         IN  Yield(r2, "response.output_text.delta", r2.st.outputIndex,
                   "message", r2.st.messageId, content)

\* if (choice.finish_reason) { ... }
OnFinish(r, finish_reason) ==
    IF finish_reason = Null THEN r
    ELSE LET r1 == IF FunctionCallActive(r.st)
                   THEN LET y1 == Yield(r, "response.function_call_arguments.done",
                                        r.st.outputIndex, "function_call",
                                        r.st.currentFunctionCallId, r.st.accumulatedArguments)
                            y2 == Yield(y1, "response.output_item.done",
                                        r.st.outputIndex, "function_call",
                                        r.st.currentFunctionCallId, r.st.accumulatedArguments)
                        IN  [y2 EXCEPT !.st.outputIndex = @ + 1]
                   ELSE r
         IN  IF r1.st.messageEmitted
             THEN LET z1 == Yield(r1, "response.output_text.done", r1.st.outputIndex,
                                  "message", r1.st.messageId, r1.st.accumulatedText)
                      z2 == Yield(z1, "response.content_part.done", r1.st.outputIndex,
                                  "message", r1.st.messageId, r1.st.accumulatedText)
                  IN  Yield(z2, "response.output_item.done", r1.st.outputIndex,
                            "message", r1.st.messageId, r1.st.accumulatedText)
             ELSE r1

\* the body of for (const choice of chunk.choices)
OnChoice(r, choice) ==
    OnFinish(OnContent(OnToolCalls(r, choice.tool_calls), choice.content),
             choice.finish_reason)

\* the body of for await (const chunk of chunks)
RECURSIVE OnChunk(_, _)
OnChunk(r, choices) ==
    IF choices = <<>> THEN r
    ELSE OnChunk(OnChoice(r, Head(choices)), Tail(choices))

\* the items of finalOutput, each with its text or arguments
\* (a message's content is its one output_text part), a function call also
\* with its name and call_id
OutputItem(type, id, payload) ==
    [type |-> type, id |-> id, payload |-> payload, call_id |-> Null, name |-> Null,
     status |-> "completed"]

FunctionCallItem(id, name, call_id, arguments) ==
    [OutputItem("function_call", id, arguments) EXCEPT !.name = name, !.call_id = call_id]

\* mutant: the message item is pushed first
finalOutput_MessageFirst(st) ==
    (IF st.messageEmitted
     THEN <<OutputItem("message", st.messageId, st.accumulatedText)>>
     ELSE <<>>)
    \o (IF FunctionCallActive(st)
        THEN <<FunctionCallItem(st.currentFunctionCallId, st.currentFunctionName,
                                st.currentCallId, st.accumulatedArguments)>>
        ELSE <<>>)

\* const finalOutput: the function call, if one is current, then the
\* message, if one was emitted
finalOutput(st) ==
    (IF FunctionCallActive(st)
     THEN <<FunctionCallItem(st.currentFunctionCallId, st.currentFunctionName,
                             st.currentCallId, st.accumulatedArguments)>>
     ELSE <<>>)
    \o (IF st.messageEmitted
        THEN <<OutputItem("message", st.messageId, st.accumulatedText)>>
        ELSE <<>>)

\* after the chunk stream ended: response.completed
OnEnd(r) == YieldResponse(r, "response.completed", finalOutput(r.st))

\* what streamToEvents does with one chunk pulled from the chunk stream
streamToEvents(st, chunk) == OnChunk([st |-> st, ev |-> <<>>], chunk)

\* ------------------------------------------------------------------------
\* The adapter's unary conversions
\* ------------------------------------------------------------------------

\* A text is a sequence of tokens, <<>> the empty string.

\* one entry of message.tool_calls of a ChatCompletionResponse
ToolCall(id, name, arguments) == [id |-> id, name |-> name, arguments |-> arguments]

\* a choice of a ChatCompletionResponse: its message's tool_calls (<<>>:
\* absent) and content (<<>>: null or '')
ChatChoice(tool_calls, content) == [tool_calls |-> tool_calls, content |-> content]

\* generateId(prefix) for the k-th item of an output: ids are random, two
\* calls never return the same one
generateId(prefix, k) == <<prefix, k>>

\* for (const toolCall of message.tool_calls) output.push(functionCallItem)
RECURSIVE pushToolCalls(_, _)
pushToolCalls(output, tool_calls) ==
    IF tool_calls = <<>> THEN output
    ELSE LET toolCall == Head(tool_calls)
         IN  pushToolCalls(
                Append(output, FunctionCallItem(generateId("fc", Len(output) + 1),
                                                toolCall.name, toolCall.id,
                                                toolCall.arguments)),
                Tail(tool_calls))

\* mutant: the message item is pushed before the choice's function calls
pushChoice_MessageFirst(output, choice) ==
    LET o1 == IF choice.content # <<>>
              THEN Append(output, OutputItem("message", generateId("msg", Len(output) + 1),
                                             choice.content))
              ELSE output
    IN  pushToolCalls(o1, choice.tool_calls)

\* the body of for (const choice of response.choices)
pushChoice(output, choice) ==
    LET o1 == pushToolCalls(output, choice.tool_calls)
    IN  IF choice.content # <<>>
        THEN Append(o1, OutputItem("message", generateId("msg", Len(o1) + 1),
                                   choice.content))
        ELSE o1

RECURSIVE pushChoices(_, _)
pushChoices(output, choices) ==
    IF choices = <<>> THEN output
    ELSE pushChoices(pushChoice(output, Head(choices)), Tail(choices))

\* a Response of the OpenResponses format
ResponseObject(id, status, output, model, provider) ==
    [id |-> id, status |-> status, output |-> output, model |-> model,
     provider |-> provider]

\* the response with the id that generateId('resp') returned for it
WithId(response, id) == [response EXCEPT !.id = id]

\* fromOpenAIChatResponse(response, requestModel)
fromOpenAIChatResponse(response, requestModel) ==
    ResponseObject(generateId("resp", 0), "completed", pushChoices(<<>>, response.choices),
                   IF response.model # Null THEN response.model ELSE requestModel,
                   response.provider)

\* ------------------------------------------------------------------------
\* The input of a /v1/responses request and the response store
\* ------------------------------------------------------------------------

\* a content part
Part(type, text) == [type |-> type, text |-> text]

\* An input item.  The content of a message is a sequence of parts; a
\* content that is a bare string is the one part of type "string".
MessageInput(role, content) ==
    [type |-> "message", role |-> role, content |-> content, call_id |-> Null,
     output |-> <<>>]

FunctionCallOutput(call_id, output) ==
    [type |-> "function_call_output", role |-> Null, content |-> <<>>,
     call_id |-> call_id, output |-> output]

\* body.input: absent, a string (text) or an array (items)
Input(kind, text, items) == [kind |-> kind, text |-> text, items |-> items]

NoInput == Input("absent", <<>>, <<>>)

\* the callback of input.map in normalizeInput
normalizeItem(item) ==
    IF item.type = "message" /\ Len(item.content) = 1 /\ item.content[1].type = "string"
    THEN [item EXCEPT !.content = <<Part("input_text", item.content[1].text)>>]
    ELSE item

\* normalizeInput(input)
normalizeInput(input) ==
    IF input.kind = "string"
    THEN <<MessageInput("user", <<Part("input_text", input.text)>>)>>
    ELSE [i \in DOMAIN input.items |-> normalizeItem(input.items[i])]

\* outputItemToInputItem(item): the one output_text part of a message
\* becomes an input_text part, a function call a function_call_output
\* with the empty output
outputItemToInputItem(item) ==
    IF item.type = "message"
    THEN MessageInput("assistant", <<Part("input_text", item.payload)>>)
    ELSE IF item.type = "function_call"
    THEN FunctionCallOutput(item.call_id, <<>>)
    ELSE item

\* new LRUCache({ max: maxSize, ttl: ttlMs }): the number of entries kept
MaxStored == 1

\* { response, input } as the store keeps it under id
StoredResponse_InputDropped(id, response, input) ==
    [id |-> id, response |-> response, input |-> <<>>]

StoredResponse(id, response, input) == [id |-> id, response |-> response, input |-> input]

\* ResponseStore.get(id) finds an entry
responseStoreHas(st, id) == \E i \in DOMAIN st : st[i].id = id

\* ResponseStore.get(id): the entry (the caller has tested that there is one)
responseStoreGet(st, id) == st[CHOOSE i \in DOMAIN st : st[i].id = id]

\* the store after get(id): the entry read is the most recently used one
responseStoreTouch(st, id) ==
    IF responseStoreHas(st, id)
    THEN Append(SelectSeq(st, LAMBDA e : e.id # id), responseStoreGet(st, id))
    ELSE st

\* ResponseStore.set(id, response, input): the least recently used entry
\* goes when the store is full
responseStoreSet(st, id, response, input) ==
    LET all == Append(SelectSeq(st, LAMBDA e : e.id # id),
                      StoredResponse(id, response, input))
    IN  IF Len(all) > MaxStored THEN Tail(all) ELSE all

\* normalizedInput after `if (body.previous_response_id) { ... }`, the
\* entry being there
expandInput(st, request) ==
    IF request.previous_response_id = Absent THEN normalizeInput(request.input)
    ELSE LET previousData == responseStoreGet(st, request.previous_response_id)
             previousOutput == [i \in DOMAIN previousData.response.output |->
                                   outputItemToInputItem(previousData.response.output[i])]
         IN  previousData.input \o previousOutput \o normalizeInput(request.input)

\* ------------------------------------------------------------------------
\* Router: the per-candidate loop
\* ------------------------------------------------------------------------

NoResult == [kind |-> "none", site |-> "none", message |-> <<>>, response |-> NoResponse]

Returned(response) ==
    [kind |-> "response", site |-> "none", message |-> <<>>, response |-> response]

\* the streaming router's generator returned (Node), or the upstream body
\* that the Workers router handed over ended
StreamReturned == [kind |-> "stream_end", site |-> "none", message |-> <<>>, response |-> NoResponse]

Threw(site, message) ==
    [kind |-> "error", site |-> site, message |-> message, response |-> NoResponse]

NoProvidersAvailable == <<"No providers available for this request">>

NoProvidersConfigured == <<"No providers configured">>

\* the message of the error thrown after the loop
AllProvidersFailed(cfg, request, lastErr) ==
    <<IF request.stream THEN "All providers failed for streaming. Last error:"
                        ELSE "All providers failed. Last error:">>
    \o (IF lastErr # <<>> THEN lastErr
        ELSE IF cfg.impl = "node" THEN <<"Unknown error">> ELSE <<"Unknown">>)

\* the candidate the loop reaches next, from position `from` on: the first
\* one that is registered and supports the resolved model; 0 when the loop
\* runs out
NextCandidate(cfg, order, from, model) ==
    LET S == {k \in from..Len(order) :
                /\ registryHas(cfg, order[k])
                /\ supportsModel(order[k], resolveModelAlias(model, order[k]))}
    IN  IF S = {} THEN 0 ELSE CHOOSE k \in S : \A j \in S : k <= j

\* mutant: after a failure the loop stays on the candidate that failed
RouteFrom_RetrySame(cfg, request, order, from, lastErr, callsSoFar) ==
    LET k == NextCandidate(cfg, order, IF from > 1 THEN from - 1 ELSE from, request.model)
    IN  IF k = 0
        THEN [pc |-> "done", idx |-> Len(order) + 1, lastError |-> lastErr,
              calls |-> callsSoFar,
              result |-> Threw("router", AllProvidersFailed(cfg, request, lastErr))]
        ELSE [pc |-> "await", idx |-> k, lastError |-> lastErr,
              calls |-> Append(callsSoFar, UpstreamCall(order[k], request)),
              result |-> NoResult]

\* mutant: the catch block does not assign lastError
RouteFrom_ForgetError(cfg, request, order, from, lastErr, callsSoFar) ==
    LET k == NextCandidate(cfg, order, from, request.model)
    IN  IF k = 0
        THEN [pc |-> "done", idx |-> Len(order) + 1, lastError |-> lastError,
              calls |-> callsSoFar,
              result |-> Threw("router", AllProvidersFailed(cfg, request, lastError))]
        ELSE [pc |-> "await", idx |-> k, lastError |-> lastError,
              calls |-> Append(callsSoFar, UpstreamCall(order[k], request)),
              result |-> NoResult]

\* The loop from position `from` on, up to its next await: the call to the
\* next candidate is issued, or the loop is exhausted and the router throws.
RouteFrom(cfg, request, order, from, lastErr, callsSoFar) ==
    LET k == NextCandidate(cfg, order, from, request.model)
    IN  IF k = 0
        THEN [pc |-> "done", idx |-> Len(order) + 1, lastError |-> lastErr,
              calls |-> callsSoFar,
              result |-> Threw("router", AllProvidersFailed(cfg, request, lastErr))]
        ELSE [pc |-> "await", idx |-> k, lastError |-> lastErr,
              calls |-> Append(callsSoFar, UpstreamCall(order[k], request)),
              result |-> NoResult]

\* routeChatCompletion / routeChatCompletionStream from their first
\* statement to their first await, for one outcome o of getProviderOrder
RouteStart(cfg, request, o) ==
    IF cfg.impl = "workers" /\ getEnabledProviders(cfg) = <<>>
    THEN [pc |-> "done", idx |-> 0, lastError |-> <<>>, calls |-> <<>>,
          result |-> Threw("router", NoProvidersConfigured)]
    ELSE IF o.error # <<>>
    THEN [pc |-> "done", idx |-> 0, lastError |-> <<>>, calls |-> <<>>,
          result |-> Threw("getProviderOrder", o.error)]
    ELSE IF Len(o.order) = 0
    THEN [pc |-> "done", idx |-> 0, lastError |-> <<>>, calls |-> <<>>,
          result |-> Threw("router", NoProvidersAvailable)]
    ELSE RouteFrom(cfg, request, o.order, 1, <<>>, <<>>)

\* the outcomes of getProviderOrder in this deployment
ProviderOrders(cfg, rr, request) ==
    IF cfg.impl = "node" THEN getProviderOrder(cfg, rr, request)
    ELSE IF getEnabledProviders(cfg) = <<>>
    THEN {[order |-> <<>>, rr |-> rr, error |-> <<>>]}
    ELSE W_getProviderOrder(getEnabledProviders(cfg), request, cfg, rr)

\* ------------------------------------------------------------------------
\* Cache
\* ------------------------------------------------------------------------

\* the fields generateCacheKey copies into keyData, in its order
KeyFields ==
    <<"model", "messages", "temperature", "top_p", "max_tokens", "stop",
      "presence_penalty", "frequency_penalty">>

\* JSON.stringify(keyData): the fields that are defined, as name and value
\* (a field that is undefined is left out)
RECURSIVE StringifyFields(_, _)
StringifyFields(request, fields) ==
    IF fields = <<>> THEN <<>>
    ELSE (IF request[Head(fields)] = Null THEN <<>>
          ELSE <<Head(fields), request[Head(fields)]>>)
         \o StringifyFields(request, Tail(fields))

\* charCodeAt for the pieces of the JSON text
CharCode(t) ==
    CASE t = "model" -> 1 [] t = "messages" -> 2 [] t = "temperature" -> 3
      [] t = "top_p" -> 4 [] t = "max_tokens" -> 5 [] t = "stop" -> 6
      [] t = "presence_penalty" -> 7 [] t = "frequency_penalty" -> 8
      [] t = "llama-70b" -> 11 [] t = "mixtral-8x7b-32768" -> 12
      [] t = "m1" -> 13 [] t = "m2" -> 14 [] t = "0.7" -> 15
      [] OTHER -> 16

\* hash = ((hash << 5) - hash) + char; hash = hash & hash: 31 * hash + char
\* in 32 bits, kept as its two 16-bit halves
HashStep(hash, char) ==
    LET lo == 31 * hash[2] + char
        hi == 31 * hash[1] + (lo \div 65536)
    IN  <<hi % 65536, lo % 65536>>

RECURSIVE HashOf(_, _)
HashOf(hash, json) ==
    IF json = <<>> THEN hash ELSE HashOf(HashStep(hash, CharCode(Head(json))), Tail(json))

\* Math.abs of the 32-bit signed value in the halves
AbsHash(hash) ==
    IF hash[1] < 32768 THEN hash
    ELSE IF hash[2] = 0 THEN <<65536 - hash[1], 0>>
    ELSE <<65535 - hash[1], 65536 - hash[2]>>

\* mutant: request.user is added to keyData
generateCacheKey_WithUser(impl, request) ==
    LET json == StringifyFields(request, Append(KeyFields, "user"))
    IN  IF impl = "node" THEN <<"sha256", json>>
        ELSE <<"llmux:", AbsHash(HashOf(<<0, 0>>, json)), ":", Len(json)>>

\* generateCacheKey of the Node server (SHA-256 of the JSON text, taken to
\* be free of collisions) and of the Workers (a 32-bit rolling hash and the
\* length of the text)
generateCacheKey(impl, request) ==
    LET json == StringifyFields(request, KeyFields)
    IN  IF impl = "node" THEN <<"sha256", json>>
        ELSE <<"llmux:", AbsHash(HashOf(<<0, 0>>, json)), ":", Len(json)>>

\* the value the backend holds under the key, NoResponse if none
Lookup(st, key) ==
    IF \E e \in st : e.key = key THEN (CHOOSE e \in st : e.key = key).value
    ELSE NoResponse

\* the backend with value put under the key
Put(st, key, value) ==
    {e \in st : e.key # key} \cup {[key |-> key, value |-> value]}

\* { ...value, cached: true }
WithCached(value) ==
    [f \in DOMAIN value \cup {"cached"} |-> IF f = "cached" THEN TRUE ELSE value[f]]

\* JSON.parse(JSON.stringify(value)): undefined fields are gone
JsonRoundTrip(value) ==
    [f \in {g \in DOMAIN value : g = "choices" \/ value[g] # Null} |-> value[f]]

\* one backend operation, as the history keeps it: ok is false when the
\* call to Redis or KV failed
CacheOp(op, key, ok) == [op |-> op, key |-> key, ok |-> ok]

\* mutant: the stored value is returned as it is
backendGet_Verbatim(cfg, st, key, ok) ==
    LET value == Lookup(st, key)
    IN  IF cfg.cache.backend # "memory" /\ ~ok
        THEN [value |-> NoResponse, error |-> <<>>]
        ELSE [value |-> value, error |-> <<>>]

\* mutant: RedisCache.get and getFromCache without their try / catch
backendGet_NoCatch(cfg, st, key, ok) ==
    LET value == Lookup(st, key)
    IN  IF cfg.cache.backend # "memory" /\ ~ok
        THEN [value |-> NoResponse, error |-> <<"Connection is closed.">>]
        ELSE [value |-> IF value # NoResponse THEN WithCached(value) ELSE NoResponse,
              error |-> <<>>]

\* MemoryCache.get, RedisCache.get and env.CACHE.get inside getFromCache:
\* the value returned and the error thrown (<<>>: none); a failure of the
\* Redis or KV call is caught
backendGet(cfg, st, key, ok) ==
    LET value == Lookup(st, key)
    IN  IF cfg.cache.backend # "memory" /\ ~ok
        THEN [value |-> NoResponse, error |-> <<>>]
        ELSE [value |-> IF value # NoResponse THEN WithCached(value) ELSE NoResponse,
              error |-> <<>>]

\* mutant: the entry is put before there is a response to put
backendSet_NoValue(cfg, st, key, value, ok) ==
    [store |-> Put(st, key, NoResponse), error |-> <<>>]

\* MemoryCache.set, RedisCache.set and env.CACHE.put inside setInCache: the
\* backend afterwards and the error thrown
backendSet(cfg, st, key, value, ok) ==
    IF cfg.cache.backend = "memory" THEN [store |-> Put(st, key, value), error |-> <<>>]
    ELSE IF ~ok THEN [store |-> st, error |-> <<>>]
    ELSE [store |-> Put(st, key, JsonRoundTrip(value)), error |-> <<>>]

\* CacheManager.isEnabled, and env.CACHE being bound
isEnabled(cfg) == cfg.cache.enabled

\* nothing was looked up
NotLookedUp == [value |-> NoResponse, ops |-> <<>>, error |-> <<>>]

\* CacheManager.get and getFromCache: the value returned, the backend
\* operations made and the error thrown
CacheGet(cfg, st, request, ok) ==
    IF ~isEnabled(cfg) THEN NotLookedUp
    ELSE IF request.cache = "false" THEN NotLookedUp
    ELSE LET key == generateCacheKey(cfg.impl, request)
             got == backendGet(cfg, st, key, ok)
         IN  [value |-> got.value, ops |-> <<CacheOp("get", key, ok)>>,
              error |-> got.error]

\* nothing was written
NotWritten(st) == [store |-> st, ops |-> <<>>, error |-> <<>>]

\* CacheManager.set and setInCache: the backend afterwards, the backend
\* operations made and the error thrown
CacheSet(cfg, st, request, response, ok) ==
    IF ~isEnabled(cfg) THEN NotWritten(st)
    ELSE IF request.cache = "false" THEN NotWritten(st)
    ELSE IF request.stream THEN NotWritten(st)
    ELSE LET key == generateCacheKey(cfg.impl, request)
             put == backendSet(cfg, st, key, response, ok)
         IN  [store |-> put.store, ops |-> <<CacheOp("set", key, ok)>>,
              error |-> put.error]

\* the outcomes a backend call can have: the memory cache does not fail
BackendOutcomes(cfg) ==
    IF isEnabled(cfg) /\ cfg.cache.backend # "memory" THEN BOOLEAN ELSE {TRUE}

\* ------------------------------------------------------------------------
\* HTTP handlers
\* ------------------------------------------------------------------------

\* the output of the Workers /v1/responses handler: a message item for each
\* choice with content, and nothing for tool calls
RECURSIVE W_pushChoices(_, _)
W_pushChoices(output, choices) ==
    IF choices = <<>> THEN output
    ELSE W_pushChoices(IF choices[1].content # <<>>
                       THEN Append(output,
                                   OutputItem("message",
                                              generateId("msg", Len(output) + 1),
                                              choices[1].content))
                       ELSE output,
                       Tail(choices))

\* the Response the Workers /v1/responses handler makes of a chat response
W_fromChatResponse(chatResponse) ==
    ResponseObject(generateId("resp", 1), "completed",
                   W_pushChoices(<<>>, chatResponse.choices),
                   chatResponse.model, chatResponse.provider)

Reply(status, message, response) ==
    [status |-> status, message |-> message, response |-> response]

NoReply == Reply(0, <<>>, NoResponse)

\* the response.failed event handleStreamingRequest (responses) builds
FailedEvent(message) ==
    [Event("response.failed", 0, -1, "none", "none", message)
        EXCEPT !.response_id = 0, !.status = "failed"]

UnknownItemType == <<"Unknown item type">>

BodyError == <<"Body Timeout Error">>

\* mutant: the head is left to be written with the first frame
HeadersWritten_WithFirstFrame(cfg, request) == NoReply

\* reply.raw.writeHead(200, ...) at the start of the Node streaming handlers
HeadersWritten(cfg, request) ==
    IF cfg.impl = "node" /\ request.stream THEN Reply(200, <<>>, NoResponse) ELSE NoReply

\* The handler's catch block for an error with this message: the Node
\* streaming handlers write a frame and end the stream; the unary handlers,
\* and the Workers handler whose router threw, answer 502.
HandlerCatch(cfg, request, message, rep, w, e) ==
    IF cfg.impl = "node" /\ request.stream
    THEN [reply |-> rep,
          written |-> Append(w, IF request.endpoint = "responses"
                                THEN FailedEvent(message) ELSE ErrorFrame(message)),
          ended |-> TRUE, emitter |-> e]
    ELSE [reply |-> Reply(502, message, NoResponse), written |-> w,
          ended |-> TRUE, emitter |-> e]

\* What the handler does once the router has run up to its next await and
\* stands as the router step rs says: nothing while a call is pending or a
\* stream is open; its catch block when the router threw; the reply when
\* the router returned.
Handle(cfg, request, rs, rep, w, e) ==
    CASE rs.result.kind = "error" ->
            HandlerCatch(cfg, request, rs.result.message, rep, w, e)
      [] rs.result.kind = "response" ->
            [reply |-> Reply(200, <<>>,
                             IF request.endpoint # "responses" THEN rs.result.response
                             ELSE IF cfg.impl = "node"
                             THEN WithId(fromOpenAIChatResponse(rs.result.response,
                                                                request.model),
                                         issued + 1)
                             ELSE W_fromChatResponse(rs.result.response)),
             written |-> w, ended |-> TRUE, emitter |-> e]
      [] rs.result.kind = "stream_end" ->
            IF cfg.impl = "node" /\ request.endpoint = "responses"
            THEN LET r == OnEnd([st |-> e, ev |-> <<>>])
                 IN  [reply |-> rep, written |-> Append(w \o r.ev, DoneFrame),
                      ended |-> TRUE, emitter |-> r.st]
            ELSE IF cfg.impl = "node"
            THEN [reply |-> rep, written |-> Append(w, DoneFrame),
                  ended |-> TRUE, emitter |-> e]
            ELSE [reply |-> rep, written |-> w, ended |-> TRUE, emitter |-> e]
      [] rs.result.kind = "aborted" ->
            [reply |-> rep, written |-> w, ended |-> TRUE, emitter |-> e]
      [] OTHER ->
            \* the Workers handler returns the upstream's stream as its reply
            [reply |-> IF rs.pc = "stream" /\ cfg.impl = "workers"
                       THEN Reply(200, <<>>, NoResponse) ELSE rep,
             written |-> w, ended |-> FALSE, emitter |-> e]

\* ------------------------------------------------------------------------
\* Requests
\* ------------------------------------------------------------------------

\* a request body: its endpoint, the ChatCompletionRequest fields (Null: the
\* field is absent; cache is "true", "false" or absent; messages is also
\* "[]", the empty array), whether its input items convert, and of a
\* ResponseRequest the input and previous_response_id (Absent: none)
Request(endpoint, stream, model, provider, inputOk) ==
    [endpoint |-> endpoint, stream |-> stream, model |-> model,
     provider |-> provider, inputOk |-> inputOk,
     messages |-> "m1", temperature |-> Null, top_p |-> Null, max_tokens |-> Null,
     stop |-> Null, presence_penalty |-> Null, frequency_penalty |-> Null,
     user |-> Null, cache |-> Null,
     input |-> Input("string", <<"hi">>, <<>>), previous_response_id |-> Absent]

\* POST /v1/chat/completions bodies that pass validation
ChatRequests ==
    {Request("chat", s, m, p, TRUE) :
        s \in BOOLEAN, m \in RequestModels, p \in {Null} \cup ProviderSet}

\* POST /v1/responses bodies with stream: true that pass validation; inputOk
\* is false when an input item is neither a message nor a function_call_output
ResponsesRequests ==
    {Request("responses", TRUE, m, p, ok) :
        m \in RequestModels, p \in {Null} \cup ProviderSet, ok \in BOOLEAN}

NoRequest == Request("none", FALSE, Null, Null, TRUE)

\* ------------------------------------------------------------------------
\* Actions
\* ------------------------------------------------------------------------

\* no request received yet
Idle ==
    /\ roundRobinIndex = [m \in RequestModels |-> Absent]
    /\ pc = "idle"
    /\ req = NoRequest
    /\ providerOrder = <<>>
    /\ idx = 0
    /\ lastError = <<>>
    /\ calls = <<>>
    /\ errors = <<>>
    /\ out = <<>>
    /\ result = NoResult
    /\ reply = NoReply
    /\ written = <<>>
    /\ ended = FALSE
    /\ emitter = EmitterInit
    /\ heads = [m \in RequestModels |-> <<>>]
    /\ body = <<>>
    /\ responseStore = <<>>
    /\ issued = 0
    /\ normalizedInput = <<>>
    /\ disconnected = FALSE
    /\ flights = <<>>
    /\ store = {}
    /\ cacheOps = <<>>
    /\ cached = NoResponse

\* the process after startup: the enabled providers are registered, here
\* in the order of ProviderNames
Start ==
    /\ registry = getEnabledProviders(config)
    /\ streams = <<>>
    /\ Idle

Init ==
    /\ config \in Configs
    /\ Start

\* the router variables after router step rs
RouterStep(rs) ==
    /\ pc' = rs.pc
    /\ idx' = rs.idx
    /\ lastError' = rs.lastError
    /\ calls' = rs.calls
    /\ result' = rs.result

\* the client variables and the emitter after the handler's step h
HandlerStep(h) ==
    /\ reply' = h.reply
    /\ written' = h.written
    /\ ended' = h.ended
    /\ emitter' = h.emitter

\* mutant: the handler looks the request up before it tests body.stream
handlerGet_BeforeStreamTest(cfg, st, r, ok) ==
    IF r.endpoint = "chat" THEN CacheGet(cfg, st, r, ok)
    ELSE NotLookedUp

\* the chat handler's `cached = await cache.get(body)`, which only the
\* non-streaming path reaches; the /v1/responses handlers have no cache
handlerGet(cfg, st, r, ok) ==
    IF r.endpoint = "chat" /\ ~r.stream THEN CacheGet(cfg, st, r, ok)
    ELSE NotLookedUp

\* the chat handler's `await cache.set(body, response)` after the router
\* returned a response
handlerSet(cfg, st, r, response, ok) ==
    IF r.endpoint = "chat" /\ ~r.stream THEN CacheSet(cfg, st, r, response, ok)
    ELSE NotWritten(st)

\* the history after getProviderOrder returned outcome o for request r
Noted(h, cfg, r, o) ==
    IF cfg.strategy = "round-robin" /\ r.provider = Null /\ Len(o.order) > 0
    THEN LET w == Append(h[r.model], o.order[1])
         IN  [h EXCEPT ![r.model] = Slice(w, Len(w) - Min(Len(w), Len(o.order)), Len(w))]
    ELSE h

\* mutant: an empty messages array passes
Validate_EmptyMessages(r) ==
    IF r.model = Null THEN "missing_model"
    ELSE IF r.endpoint = "chat" /\ r.messages = Null THEN "missing_messages"
    ELSE IF r.endpoint = "responses"
            /\ (r.input.kind = "absent" \/ (r.input.kind = "string" /\ r.input.text = <<>>))
    THEN "missing_input"
    ELSE "ok"

\* the handler's tests of the required fields: "ok", or the code of the
\* 400 reply
Validate(r) ==
    IF r.model = Null THEN "missing_model"
    ELSE IF r.endpoint = "chat" /\ r.messages \in {Null, "[]"} THEN "missing_messages"
    ELSE IF r.endpoint = "responses"
            /\ (r.input.kind = "absent" \/ (r.input.kind = "string" /\ r.input.text = <<>>))
    THEN "missing_input"
    ELSE "ok"

\* the request is one of the Node /v1/responses handler, which has the
\* response store
UsesStore(cfg, r) == cfg.impl = "node" /\ r.endpoint = "responses"

\* return reply.status(status).send({ error: { code } }) before the router
\* is called
Rejected(status, code) ==
    /\ RouterStep([pc |-> "done", idx |-> 0, lastError |-> <<>>,
                   calls |-> <<>>, result |-> NoResult])
    /\ providerOrder' = <<>>
    /\ HandlerStep([reply |-> Reply(status, <<code>>, NoResponse), written |-> <<>>,
                    ended |-> TRUE, emitter |-> EmitterInit])
    /\ UNCHANGED <<roundRobinIndex, heads, responseStore, normalizedInput, cacheOps,
                   cached>>

\* mutant: the handler asks the router for the candidate order before it
\* looks at what the cache returned
ServeCached_OrderFirst(r, value) ==
    /\ RouterStep([pc |-> "done", idx |-> 0, lastError |-> <<>>,
                   calls |-> <<>>, result |-> NoResult])
    /\ providerOrder' = <<>>
    /\ \E o \in ProviderOrders(config, roundRobinIndex, r) : roundRobinIndex' = o.rr
    /\ UNCHANGED heads
    /\ HandlerStep([reply |-> Reply(200, <<>>, value), written |-> <<>>,
                    ended |-> TRUE, emitter |-> EmitterInit])

\* if (cached) return reply.send(cached): the router is not called
ServeCached(r, value) ==
    /\ RouterStep([pc |-> "done", idx |-> 0, lastError |-> <<>>,
                   calls |-> <<>>, result |-> NoResult])
    /\ providerOrder' = <<>>
    /\ UNCHANGED <<roundRobinIndex, heads>>
    /\ HandlerStep([reply |-> Reply(200, <<>>, value), written |-> <<>>,
                    ended |-> TRUE, emitter |-> EmitterInit])

\* A request arrives and is handled up to the first upstream call.  The
\* handler tests the required fields; the /v1/responses handler expands
\* the input with the stored response and converts it (toOpenAIChatRequest
\* throws on an unknown item type; the Workers handler passes such an item
\* on); streamToEvents yields its first two events and pulls the first
\* chunk, which starts the router.
Receive(r) ==
    /\ pc = "idle"
    /\ req' = r
    /\ out' = <<>>
    /\ errors' = <<>>
    /\ UNCHANGED <<config, registry, disconnected, streams, flights, store, body, issued>>
    /\ IF Validate(r) # "ok"
       THEN Rejected(400, Validate(r))
       ELSE IF /\ UsesStore(config, r)
               /\ r.previous_response_id # Absent
               /\ ~responseStoreHas(responseStore, r.previous_response_id)
       THEN Rejected(404, "response_not_found")
       ELSE
        /\ normalizedInput' = IF UsesStore(config, r) THEN expandInput(responseStore, r)
                              ELSE <<>>
        /\ responseStore' = IF UsesStore(config, r)
                            THEN responseStoreTouch(responseStore, r.previous_response_id)
                            ELSE responseStore
        /\ \E ok \in BackendOutcomes(config) :
            LET g == handlerGet(config, store, r, ok)
            IN  /\ cached' = g.value
                /\ cacheOps' = g.ops
                /\ IF g.error # <<>>
                   THEN \* cache.get threw inside the handler's try
                        /\ RouterStep([pc |-> "done", idx |-> 0, lastError |-> <<>>,
                                       calls |-> <<>>, result |-> NoResult])
                        /\ providerOrder' = <<>>
                        /\ UNCHANGED <<roundRobinIndex, heads>>
                        /\ HandlerStep(HandlerCatch(config, r, g.error, NoReply, <<>>,
                                                    EmitterInit))
                   ELSE IF g.value # NoResponse
                   THEN ServeCached(r, g.value)
                   ELSE IF config.impl = "node" /\ r.endpoint = "responses" /\ ~r.inputOk
                   THEN /\ RouterStep([pc |-> "done", idx |-> 0, lastError |-> <<>>,
                                       calls |-> <<>>, result |-> NoResult])
                        /\ providerOrder' = <<>>
                        /\ UNCHANGED <<roundRobinIndex, heads>>
                        /\ HandlerStep(HandlerCatch(config, r, UnknownItemType,
                                                    HeadersWritten(config, r), <<>>,
                                                    EmitterInit))
                   ELSE \E o \in ProviderOrders(config, roundRobinIndex, r) :
                            LET open == IF UsesStore(config, r) /\ r.stream
                                        THEN EmitOpen(NewEmitter(issued + 1))
                                        ELSE [st |-> EmitterInit, ev |-> <<>>]
                                rs == RouteStart(config, r, o)
                            IN  /\ roundRobinIndex' = o.rr
                                /\ heads' = Noted(heads, config, r, o)
                                /\ providerOrder' = o.order
                                /\ RouterStep(rs)
                                /\ HandlerStep(Handle(config, r, rs,
                                                      HeadersWritten(config, r),
                                                      open.ev, open.st))

\* The upstream answers the pending call: the router returns the response
\* (unary), starts to yield the stream (streaming), or records the error
\* and goes on with the next candidate.
Answered(a) ==
    /\ pc = "await"
    /\ LET name == providerOrder[idx]
           res == Invoke(config, name, calls[Len(calls)], a)
           rs == IF ~res.ok
                 THEN RouteFrom(config, req, providerOrder, idx + 1, res.error, calls)
                 ELSE IF req.stream
                 THEN [pc |-> "stream", idx |-> idx, lastError |-> lastError,
                       calls |-> calls, result |-> NoResult]
                 ELSE [pc |-> "done", idx |-> idx, lastError |-> lastError,
                       calls |-> calls, result |-> Returned(res.response)]
       IN  /\ RouterStep(rs)
           /\ errors' = IF res.ok THEN errors ELSE Append(errors, res.error)
           /\ IF rs.result.kind = "response" /\ UsesStore(config, req)
              THEN \* await responseStore.set(response.id, response, normalizedInput)
                   LET response == WithId(fromOpenAIChatResponse(rs.result.response,
                                                                 req.model),
                                          issued + 1)
                   IN  /\ responseStore' = responseStoreSet(responseStore, response.id,
                                                            response, normalizedInput)
                       /\ issued' = issued + 1
              ELSE UNCHANGED <<responseStore, issued>>
           /\ IF rs.result.kind = "response"
              THEN \E ok \in BackendOutcomes(config) :
                      LET c == handlerSet(config, store, req, rs.result.response, ok)
                      IN  /\ store' = c.store
                          /\ cacheOps' = cacheOps \o c.ops
                          /\ IF c.error # <<>>
                             THEN \* cache.set threw inside the handler's try
                                  HandlerStep(HandlerCatch(config, req, c.error, reply,
                                                           written, emitter))
                             ELSE HandlerStep(Handle(config, req, rs, reply, written,
                                                     emitter))
              ELSE /\ HandlerStep(Handle(config, req, rs, reply, written, emitter))
                   /\ UNCHANGED <<store, cacheOps>>
    /\ UNCHANGED <<config, registry, disconnected, streams, flights, roundRobinIndex, req,
                   providerOrder, out, heads, body, cached, normalizedInput>>

\* The open upstream stream delivers a chunk: the router yields it, and the
\* handler writes it (chat) or the events streamToEvents makes of it.
StreamChunk(c) ==
    /\ pc = "stream"
    /\ Len(out) < MaxChunks
    /\ out' = Append(out, [from |-> providerOrder[idx], chunk |-> c])
    /\ IF config.impl = "node" /\ req.endpoint = "responses"
       THEN LET r == streamToEvents(emitter, c)
            IN  /\ written' = written \o r.ev
                /\ emitter' = r.st
       ELSE /\ written' = Append(written, ChunkFrame(c))
            /\ UNCHANGED emitter
    /\ UNCHANGED <<config, registry, disconnected, streams, flights, roundRobinIndex, pc, req,
                   providerOrder, idx, lastError, calls, errors, result, reply, ended,
                   heads, storeVars, body, cacheVars>>

\* The open upstream stream ends: with a data: [DONE] line (done), or the
\* body just ends.  The Node provider client returns in both cases; the
\* Workers gateway pipes the upstream body, the [DONE] line with it.
StreamEnd(done) ==
    /\ pc = "stream"
    /\ LET rs == [pc |-> "done", idx |-> idx, lastError |-> lastError,
                  calls |-> calls, result |-> StreamReturned]
           h == Handle(config, req, rs, reply, written, emitter)
       IN  /\ RouterStep(rs)
           /\ HandlerStep([h EXCEPT !.written = IF config.impl = "workers" /\ done
                                                THEN Append(@, DoneFrame) ELSE @])
    /\ IF UsesStore(config, req)
       THEN \* finalResponse is the response of the response.completed event
            /\ responseStore' =
                 responseStoreSet(responseStore, emitter.responseId,
                                  ResponseObject(emitter.responseId, "completed",
                                                 finalOutput(emitter), req.model, Null),
                                  normalizedInput)
            /\ issued' = issued + 1
       ELSE UNCHANGED <<responseStore, issued>>
    /\ UNCHANGED <<config, registry, disconnected, streams, flights, roundRobinIndex, req,
                   providerOrder, errors, out, heads, body, cacheVars,
                   normalizedInput>>

\* The open upstream stream fails (body timeout, connection reset).  In the
\* Node router the for await throws inside the try of the candidate loop;
\* the Workers router has returned, and the piped body breaks.
StreamError ==
    /\ pc = "stream"
    /\ LET rs == IF config.impl = "node"
                 THEN RouteFrom(config, req, providerOrder, idx + 1, BodyError, calls)
                 ELSE [pc |-> "done", idx |-> idx, lastError |-> lastError,
                       calls |-> calls,
                       result |-> [kind |-> "aborted", site |-> "upstream",
                                   message |-> BodyError, response |-> NoResponse]]
       IN  /\ RouterStep(rs)
           /\ HandlerStep(Handle(config, req, rs, reply, written, emitter))
    /\ errors' = Append(errors, BodyError)
    /\ UNCHANGED <<config, registry, disconnected, streams, flights, roundRobinIndex, req,
                   providerOrder, out, heads, storeVars, body, cacheVars>>

\* The handler has returned: the request and everything derived from it are
\* per-invocation values and are gone; the configuration and the
\* round-robin counters are process-scoped and stay.
Return ==
    /\ pc = "done"
    /\ pc' = "idle"
    /\ req' = NoRequest
    /\ providerOrder' = <<>>
    /\ idx' = 0
    /\ lastError' = <<>>
    /\ calls' = <<>>
    /\ errors' = <<>>
    /\ out' = <<>>
    /\ result' = NoResult
    /\ reply' = NoReply
    /\ written' = <<>>
    /\ ended' = FALSE
    /\ emitter' = EmitterInit
    /\ cacheOps' = <<>>
    /\ cached' = NoResponse
    /\ normalizedInput' = <<>>
    /\ disconnected' = FALSE
    /\ UNCHANGED <<config, registry, streams, flights, roundRobinIndex, heads, body, store,
                   responseStore, issued>>

ChunksOf(request) == IF request.endpoint = "responses" THEN ResponsesChunks ELSE ChatChunks

\* /v1/chat/completions on both deployments
Next ==
    \/ \E r \in ChatRequests : Receive(r)
    \/ \E a \in Answers : Answered(a)
    \/ \E c \in ChunksOf(req) : StreamChunk(c)
    \/ \E done \in BOOLEAN : StreamEnd(done)
    \/ StreamError
    \/ Return

Spec == Init /\ [][Next]_vars

\* /v1/responses with stream: true on the Node server, up to the first
\* response that is stored
ConfigsResp ==
    {c \in Configs :
        /\ c.impl = "node"
        /\ c.strategy = "first-available"
        /\ c.fallback_chain = <<"groq", "together", "cerebras">>
        /\ c.enabled = {"groq", "together"}}

InitResp ==
    /\ Init
    /\ config \in ConfigsResp

NextResp ==
    \/ \E r \in ResponsesRequests : issued = 0 /\ Receive(r)
    \/ \E a \in Answers : Answered(a)
    \/ \E c \in ChunksOf(req) : StreamChunk(c)
    \/ \E done \in BOOLEAN : StreamEnd(done)
    \/ StreamError
    \/ Return

SpecResp == InitResp /\ [][NextResp]_vars

\* ------------------------------------------------------------------------
\* What the properties speak of
\* ------------------------------------------------------------------------

Last(s) == s[Len(s)]

\* the OpenResponses events among the frames written to the client
EventsWritten ==
    SelectSeq(written, LAMBDA f : f.type \notin {"chunk", "error", "[DONE]"})

EventsOfType(t) == SelectSeq(written, LAMBDA f : f.type = t)

\* the choices of the chunks the router has yielded, in order
RECURSIVE FlatChoices(_)
FlatChoices(o) ==
    IF o = <<>> THEN <<>> ELSE Head(o).chunk \o FlatChoices(Tail(o))

RECURSIVE ContentOf(_)
ContentOf(choices) ==
    IF choices = <<>> THEN <<>> ELSE Head(choices).content \o ContentOf(Tail(choices))

RECURSIVE ConcatPayload(_)
ConcatPayload(evs) ==
    IF evs = <<>> THEN <<>> ELSE Head(evs).payload \o ConcatPayload(Tail(evs))

\* the providers of the upstream calls made for the request, in order
CallProviders == [i \in DOMAIN calls |-> calls[i].provider]

\* the model name the alias table gives for the request's model at p
NativeModel(p) ==
    IF MODEL_ALIASES(req.model, p) # Null THEN MODEL_ALIASES(req.model, p) ELSE req.model

\* the first k candidates that are enabled and list the native model
SupportingCandidates(k) ==
    SelectSeq(SubSeq(providerOrder, 1, Min(k, Len(providerOrder))),
              LAMBDA p : p \in config.enabled /\ NativeModel(p) \in ProviderModels(p))

TerminalEvents == {"response.completed", "response.failed"}

DeltaEvents == {"response.output_text.delta", "response.function_call_arguments.delta"}

\* ------------------------------------------------------------------------
\* Properties
\* ------------------------------------------------------------------------

\* C1: once the streaming router has yielded a chunk of a provider, no
\* further candidate is invoked: every chunk yielded comes from one
\* provider, and the last upstream call is the call to that provider.
C1_SingleProviderStream ==
    (req.stream /\ out # <<>>) =>
        /\ \A i \in DOMAIN out : out[i].from = out[1].from
        /\ Last(calls).provider = out[1].from

\* C2: the sequence_number values of the events written on a streaming
\* /v1/responses reply, the handler's response.failed included, are
\* 0, 1, 2, ... in the order written.
C2_SequenceNumbers ==
    \A i \in DOMAIN EventsWritten : EventsWritten[i].sequence_number = i - 1

\* C3: every response.output_item.added at output_index i is followed,
\* before response.completed, by exactly one response.output_item.done at
\* the same output_index, and the item it opened is closed before
\* response.completed.
C3_ItemsClosed ==
    LET ev == EventsWritten
    IN  \A c \in DOMAIN ev :
            ev[c].type = "response.completed" =>
                \A k \in 1..(c - 1) :
                    ev[k].type = "response.output_item.added" =>
                        /\ Cardinality({j \in (k + 1)..(c - 1) :
                                           /\ ev[j].type = "response.output_item.done"
                                           /\ ev[j].output_index = ev[k].output_index}) = 1
                        /\ \E j \in (k + 1)..(c - 1) :
                               /\ ev[j].type = "response.output_item.done"
                               /\ ev[j].item_id = ev[k].item_id

\* C4: response.created is the first event of a stream; response.completed
\* or response.failed is the last one of an ended stream, and no event
\* follows either.
C4_CreatedFirstTerminalLast ==
    LET ev == EventsWritten
    IN  (req.endpoint = "responses" /\ ev # <<>>) =>
            /\ ev[1].type = "response.created"
            /\ \A i \in DOMAIN ev : ev[i].type \in TerminalEvents => i = Len(ev)
            /\ ended => Last(ev).type \in TerminalEvents

\* C5: every response.output_text.delta and
\* response.function_call_arguments.delta of an item comes after the
\* item's response.output_item.added and before its
\* response.output_item.done.
C5_DeltasInsideItem ==
    LET ev == EventsWritten
    IN  \A k \in DOMAIN ev :
            ev[k].type \in DeltaEvents =>
                /\ \E j \in 1..(k - 1) :
                        /\ ev[j].type = "response.output_item.added"
                        /\ ev[j].item_id = ev[k].item_id
                /\ ~\E j \in 1..(k - 1) :
                        /\ ev[j].type = "response.output_item.done"
                        /\ ev[j].item_id = ev[k].item_id

\* C6 as stated: when the content deltas of the chunks streamed concatenate
\* to T and the last choice has finish_reason stop, the
\* response.output_text.delta payloads written concatenate to T, and there
\* is a final response.output_text.done whose text is T.
C6_TextRoundTripStated ==
    LET flat == FlatChoices(out)
        T == ContentOf(flat)
        dones == EventsOfType("response.output_text.done")
    IN  (req.endpoint = "responses" /\ flat # <<>> /\ Last(flat).finish_reason = "stop") =>
            /\ ConcatPayload(EventsOfType("response.output_text.delta")) = T
            /\ dones # <<>>
            /\ Last(dones).payload = T

\* C6 amended: when the content deltas of the chunks streamed concatenate
\* to T and the last choice has finish_reason stop, the
\* response.output_text.delta payloads written concatenate to T; when T is
\* not empty a response.output_text.done is written, and the text of the
\* last one written is T.  (With T empty no message item is opened and no
\* response.output_text.done is written.)
C6_TextRoundTrip ==
    LET flat == FlatChoices(out)
        T == ContentOf(flat)
        dones == EventsOfType("response.output_text.done")
    IN  (req.endpoint = "responses" /\ flat # <<>> /\ Last(flat).finish_reason = "stop") =>
            /\ ConcatPayload(EventsOfType("response.output_text.delta")) = T
            /\ T # <<>> => dones # <<>>
            /\ dones # <<>> => Last(dones).payload = T

\* a stream of two content chunks, the second with finish_reason stop, ended
C6_Witness ==
    /\ req.endpoint = "responses"
    /\ result.kind = "stream_end"
    /\ Len(FlatChoices(out)) >= 2
    /\ ContentOf(FlatChoices(out)) = <<"b", "a">>
    /\ Last(FlatChoices(out)).finish_reason = "stop"
    /\ Last(EventsOfType("response.output_text.done")).payload = <<"b", "a">>

\* C7: every upstream call, unary or streaming, goes to a provider whose
\* model list contains the model resolveModelAlias gives for it, and
\* carries that model; a candidate without it is passed over.
C7_OnlySupportingProvidersInvoked ==
    \A i \in DOMAIN calls :
        /\ calls[i].model = NativeModel(calls[i].provider)
        /\ calls[i].model \in ProviderModels(calls[i].provider)

\* the first candidate does not list the model, and the call went to a later one
C7_Witness ==
    /\ calls # <<>>
    /\ providerOrder[1] \in config.enabled
    /\ NativeModel(providerOrder[1]) \notin ProviderModels(providerOrder[1])
    /\ calls[1].provider # providerOrder[1]

\* C8: the unary router calls the supporting candidates in the order of
\* getProviderOrder, each after the failure of the one before; the result
\* is the response of the first that succeeds, with provider set to its
\* name, and no later candidate is called.
C8_FirstSuccessWins ==
    (req.endpoint = "chat" /\ ~req.stream) =>
        /\ CallProviders = SupportingCandidates(idx)
        /\ pc = "await" => Len(errors) = Len(calls) - 1
        /\ result.kind = "response" =>
            /\ Len(errors) = Len(calls) - 1
            /\ Last(calls).provider = providerOrder[idx]
            /\ result.response.provider = providerOrder[idx]
            /\ reply = Reply(200, <<>>, result.response)

\* the second call succeeded after the first failed, and a candidate is left over
C8_Witness ==
    /\ config.impl = "node"
    /\ ~req.stream
    /\ result.kind = "response"
    /\ Len(calls) = 2
    /\ Len(errors) = 1
    /\ idx < Len(providerOrder)
    /\ result.response.provider = calls[2].provider

\* C9: in the Node unary router an empty candidate list gives the error
\* "No providers available for this request" without any upstream call,
\* and a candidate list run through without success gives "All providers
\* failed" with the message of the last provider error; the handler
\* answers 502 with that message.
C9_ExhaustionErrors ==
    (config.impl = "node" /\ req.endpoint = "chat" /\ ~req.stream /\ pc = "done"
        /\ result.site # "getProviderOrder") =>
        /\ providerOrder = <<>> =>
            /\ result = Threw("router", NoProvidersAvailable)
            /\ calls = <<>>
            /\ reply = Reply(502, NoProvidersAvailable, NoResponse)
        /\ (providerOrder # <<>> /\ result.kind # "response") =>
            /\ result.kind = "error"
            /\ CallProviders = SupportingCandidates(Len(providerOrder))
            /\ Len(errors) = Len(calls)
            /\ result.message =
                   <<"All providers failed. Last error:">>
                   \o (IF errors = <<>> THEN <<"Unknown error">> ELSE Last(errors))
            /\ reply = Reply(502, result.message, NoResponse)

\* two candidates failed with different errors
C9_Witness ==
    /\ config.impl = "node"
    /\ ~req.stream
    /\ pc = "done"
    /\ result.kind = "error"
    /\ Len(errors) = 2
    /\ errors[1] # errors[2]
    /\ reply.status = 502

\* an explicit provider that is not enabled: no call, no fallback
C9_WitnessEmpty ==
    /\ config.impl = "node"
    /\ ~req.stream
    /\ pc = "done"
    /\ req.provider # Null
    /\ providerOrder = <<>>
    /\ Cardinality(config.enabled) >= 2
    /\ result.message = NoProvidersAvailable

\* C10: with request.provider set the candidate list is that provider
\* alone if it is enabled and empty otherwise; at most one upstream call is
\* made, and it goes to that provider.
C10_ExplicitProviderOnly ==
    (req.provider # Null /\ pc # "idle") =>
        /\ providerOrder = IF req.provider \in config.enabled
                           THEN <<req.provider>> ELSE <<>>
        /\ Len(calls) <= 1
        /\ \A i \in DOMAIN calls : calls[i].provider = req.provider

\* the named provider failed, others were enabled, and none of them was called
C10_Witness ==
    /\ req.provider # Null
    /\ Cardinality(config.enabled) >= 2
    /\ pc = "done"
    /\ result.kind = "error"
    /\ Len(calls) = 1
    /\ calls[1].provider = req.provider
    /\ Len(errors) = 1

\* An entry leaves the cache between two requests: its TTL ran out, or the
\* LRU cache dropped it.
Expire ==
    /\ pc = "idle"
    /\ \E e \in store : store' = store \ {e}
    /\ UNCHANGED <<config, registry, disconnected, streams, flights, routerVars, clientVars,
                   emitter, cacheOps, cached, heads, storeVars, body>>

\* the deployments with a cache configured: the memory or the Redis backend
\* on the Node server, the KV binding on the Workers
ConfigsCache ==
    {[impl |-> "node", enabled |-> {"groq", "together"}, strategy |-> "first-available",
      fallback_chain |-> <<"groq", "together", "cerebras">>, cache |-> c] :
        c \in {CacheConfig(TRUE, "memory"), CacheConfig(TRUE, "redis"), CacheOff}}
    \cup
    {[impl |-> "workers", enabled |-> {"groq", "together"}, strategy |-> "first-available",
      fallback_chain |-> <<"groq", "together", "cerebras">>, cache |-> c] :
        c \in {CacheConfig(TRUE, "kv"), CacheConfig(FALSE, "kv")}}

\* chat requests that differ in a key field (messages) and in fields that
\* are not part of the key
CacheRequests ==
    {[Request("chat", FALSE, "llama-70b", p, TRUE)
        EXCEPT !.messages = m, !.cache = c, !.user = u] :
        p \in {Null, "together"}, m \in {"m1", "m2"},
        c \in {Null, "false"}, u \in {Null, "u1"}}
    \cup {[Request("chat", TRUE, "llama-70b", Null, TRUE) EXCEPT !.cache = c] :
            c \in {Null, "false"}}
    \cup {Request("responses", TRUE, "llama-70b", Null, TRUE)}

InitCache ==
    /\ config \in ConfigsCache
    /\ Start

NextCache ==
    \/ \E r \in CacheRequests : (r.endpoint = "responses" => issued = 0) /\ Receive(r)
    \/ \E a \in Answers : Answered(a)
    \/ \E c \in ChatChunks : StreamChunk(c)
    \/ \E done \in BOOLEAN : StreamEnd(done)
    \/ StreamError
    \/ Return
    \/ Expire

\* /v1/chat/completions and streaming /v1/responses with a cache
SpecCache == InitCache /\ [][NextCache]_vars

\* the responses a caller hands to cache.set
CacheResponses ==
    {[model |-> "llama-3.3-70b-versatile", provider |-> p, choices |-> <<>>] :
        p \in {"groq", "together"}}

\* the requests a caller hands to the cache component: every combination
\* of a key field and of the fields that are not part of the key
ComponentRequests ==
    {[Request("chat", s, "llama-70b", p, TRUE)
        EXCEPT !.messages = m, !.temperature = "0.7", !.cache = c, !.user = u] :
        s \in BOOLEAN, p \in {Null, "groq"}, m \in {"m1", "m2"},
        c \in {Null, "true", "false"}, u \in {Null, "u1"}}

\* cache.get(request) is called
ComponentGet(r, ok) ==
    /\ pc = "idle"
    /\ LET g == CacheGet(config, store, r, ok)
       IN  /\ req' = r
           /\ cached' = g.value
           /\ cacheOps' = g.ops
    /\ UNCHANGED <<config, registry, disconnected, streams, flights, roundRobinIndex, pc,
                   providerOrder, idx, lastError, calls, errors, out, result,
                   clientVars, emitter, store, heads, storeVars, body>>

\* cache.set(request, response) is called
ComponentSet(r, response, ok) ==
    /\ pc = "idle"
    /\ LET c == CacheSet(config, store, r, response, ok)
       IN  /\ req' = r
           /\ cached' = NoResponse
           /\ store' = c.store
           /\ cacheOps' = c.ops
    /\ UNCHANGED <<config, registry, disconnected, streams, flights, roundRobinIndex, pc,
                   providerOrder, idx, lastError, calls, errors, out, result,
                   clientVars, emitter, heads, storeVars, body>>

NextComponent ==
    \/ \E r \in ComponentRequests, ok \in BackendOutcomes(config) : ComponentGet(r, ok)
    \/ \E r \in ComponentRequests, response \in CacheResponses,
          ok \in BackendOutcomes(config) : ComponentSet(r, response, ok)

\* the cache component, called with any request
SpecComponent == InitCache /\ [][NextComponent]_vars

\* the enabled providers in the order of the configuration
EnabledInConfigOrder == Filter(ProviderNames, config.enabled)

\* the candidate list the strategy is applied to, as documented
ExpectedCandidates ==
    IF config.fallback_chain = Unset THEN EnabledInConfigOrder
    ELSE Filter(config.fallback_chain, config.enabled)

\* C11: without request.provider, getProviderOrder does not fail, and the
\* candidate list is a reordering of the fallback chain filtered to the
\* enabled providers, or of all enabled providers in configuration order
\* when no chain is configured; under first-available it is that list.
C11_CandidateList ==
    (req.provider = Null /\ req.endpoint = "chat" /\ pc # "idle") =>
        /\ result.site # "getProviderOrder"
        /\ Len(providerOrder) = Len(ExpectedCandidates)
        /\ Range(providerOrder) = Range(ExpectedCandidates)
        /\ config.strategy = "first-available" => providerOrder = ExpectedCandidates

\* the list round-robin rotates for the request in flight
Available == ExpectedCandidates

\* C12: under round-robin with N >= 1 available providers, the order
\* returned for a request without provider is the available list rotated
\* by the model's counter, and among any N consecutive requests for one
\* model each available provider is at position 0 exactly once, whatever
\* requests for other models come in between.
C12_RoundRobinFair ==
    (config.strategy = "round-robin" /\ Len(Available) >= 1
        /\ (config.impl = "workers" \/ config.fallback_chain # Unset)) =>
        /\ \A m \in RequestModels :
            /\ Len(heads[m]) <= Len(Available)
            /\ \A i, j \in DOMAIN heads[m] : i # j => heads[m][i] # heads[m][j]
            /\ Len(heads[m]) = Len(Available) => Range(heads[m]) = Range(Available)
        /\ (pc # "idle" /\ req.provider = Null) =>
            LET N == Len(Available)
                c == (roundRobinIndex[req.model] + N - 1) % N
            IN  providerOrder = Slice(Available, c, N) \o Slice(Available, 0, c)

\* three providers have been at position 0 in three consecutive requests for
\* one model while the other model's counter moved
C12_Witness ==
    /\ config.strategy = "round-robin"
    /\ Len(Available) = 3
    /\ \E m \in RequestModels :
        /\ Len(heads[m]) = 3
        /\ \E n \in RequestModels \ {m} : Len(heads[n]) = 1
        /\ req.model = m
    /\ pc = "await"

\* C13: within one request, unary or streaming, no provider is called
\* twice: the calls go to the supporting candidates reached so far, each
\* once, in the order of the candidate list.
C13_NoRetryWithinProvider ==
    /\ \A i, j \in DOMAIN calls : i # j => calls[i].provider # calls[j].provider
    /\ Len(calls) <= Len(providerOrder)
    /\ pc # "idle" => CallProviders = SupportingCandidates(idx)

\* a streaming request whose first two candidates failed is at its third
C13_Witness ==
    /\ req.stream
    /\ Len(calls) = 3
    /\ Len(errors) = 2
    /\ pc = "await"

\* the cache key of the request in flight
KeyOfRequest == generateCacheKey(config.impl, req)

\* what the backend holds for the request in flight
Stored == Lookup(store, KeyOfRequest)

\* C16: a request with stream: true, on /v1/chat/completions or
\* /v1/responses, makes no backend operation, gets nothing from the cache
\* and leaves the backend's content as it was.
C16_StreamingBypassesCache ==
    /\ [](req.stream => (cacheOps = <<>> /\ cached = NoResponse))
    /\ [][req'.stream => store' = store]_vars

\* a streaming request has been served to its end while the backend holds
\* an entry under its key
C16_Witness ==
    /\ req.stream
    /\ req.endpoint = "chat"
    /\ req.cache = Null
    /\ isEnabled(config)
    /\ Stored # NoResponse
    /\ result.kind = "stream_end"
    /\ out # <<>>

\* C17 as stated: once a non-streaming request has succeeded with caching
\* on, a later request with the same key fields is answered with the stored
\* response and cached: true.
C17_SecondRequestHits ==
    (req.endpoint = "chat" /\ pc = "done" /\ isEnabled(config) /\ Stored # NoResponse
        /\ \A i \in DOMAIN cacheOps : cacheOps[i].op # "set") =>
        reply = Reply(200, <<>>, WithCached(Stored))

\* C17 amended: a hit returns the stored response with cached: true and
\* every other field as stored, and it is the reply; a response the router
\* returned is stored as it was replied when the backend accepts it; and a
\* non-streaming request without cache: false whose key the backend holds
\* and whose lookup does not fail is a hit.
C17_CacheHit ==
    (req.endpoint = "chat" /\ pc # "idle") =>
        /\ cached # NoResponse =>
            /\ Stored # NoResponse
            /\ DOMAIN cached = DOMAIN Stored \cup {"cached"}
            /\ cached.cached = TRUE
            /\ \A f \in DOMAIN Stored \ {"cached"} : cached[f] = Stored[f]
            /\ reply = Reply(200, <<>>, cached)
            /\ calls = <<>>
            /\ pc = "done"
        /\ (result.kind = "response" /\ cacheOps # <<>>
                /\ Last(cacheOps).op = "set" /\ Last(cacheOps).ok) =>
            /\ Stored = result.response
            /\ reply = Reply(200, <<>>, result.response)
        /\ (~req.stream /\ isEnabled(config) /\ req.cache # "false"
                /\ Len(cacheOps) = 1 /\ cacheOps[1].ok /\ Stored # NoResponse) =>
            cached # NoResponse

\* a request naming together is answered from the cache with the response
\* groq gave to an earlier request with the same key fields
C17_Witness ==
    /\ pc = "done"
    /\ cached # NoResponse
    /\ cached.provider = "groq"
    /\ req.provider = "together"
    /\ req.user = "u1"
    /\ reply.response.cached = TRUE

\* C18: a failure of the Redis or KV call during get or set does not fail
\* the request: a failed get is a miss and the router is run, a failed set
\* leaves the backend as it was, and the reply is the router's response, or
\* the router's error if every provider failed.
C18_BackendErrorsSwallowed ==
    /\ [](\A i \in DOMAIN cacheOps :
            ~cacheOps[i].ok =>
                /\ cacheOps[i].op = "get" => cached = NoResponse
                /\ cacheOps[i].op = "set" => result.kind = "response"
                /\ pc = "done" =>
                    \/ /\ result.kind = "response"
                       /\ reply = Reply(200, <<>>, result.response)
                    \/ /\ result.kind = "error"
                       /\ result.site = "router"
                       /\ reply = Reply(502, result.message, NoResponse))
    /\ [][(cacheOps' # <<>> /\ cacheOps' # cacheOps /\ ~Last(cacheOps').ok)
            => store' = store]_vars

\* the lookup of a key the backend holds failed, the provider answered, and
\* the write failed too
C18_Witness ==
    /\ pc = "done"
    /\ Len(cacheOps) = 2
    /\ ~cacheOps[1].ok
    /\ ~cacheOps[2].ok
    /\ Stored # NoResponse
    /\ reply.status = 200
    /\ reply.response = result.response

\* at most this many network chunks are read from one upstream body
MaxBody == 3

\* the network chunks an upstream body arrives in; a chunk may end inside a
\* line
BodyChunks ==
    {<<"data:", "SP", "{a}", "LF", "LF">>,
     <<"data:", "SP", "{b}", "LF">>,
     <<"data:", "SP">>,
     <<"{a}", "CR", "LF">>,
     <<":", "ping", "LF">>,
     <<"data:", "SP", "{x", "LF">>,
     <<"data:", "SP", "[DONE]", "LF", "data:", "SP", "{b}", "LF">>,
     <<"SP", "data:", "SP", "{a}", "SP", "LF">>,
     <<"data:", "SP", "[DONE]">>,
     <<"LF">>}

\* the requests a caller hands to the provider client
ClientRequests ==
    {[Request("chat", s, "llama-3.3-70b-versatile", p, TRUE)
        EXCEPT !.cache = c, !.user = "u1"] :
        s \in BOOLEAN, p \in {Null, "groq"}, c \in {Null, "true", "false"}}

ConfigsClient == {c \in ConfigsCache : ~c.cache.enabled}

InitClient ==
    /\ config \in ConfigsClient
    /\ Start

\* a client function is called: chatCompletion or callProvider (stream
\* false), chatCompletionStream or streamProvider (stream true)
ClientSend(r, p, stream) ==
    /\ pc = "idle"
    /\ req' = r
    /\ calls' = <<ClientCall(p, r, stream)>>
    /\ body' = <<>>
    /\ out' = <<>>
    /\ UNCHANGED <<config, registry, disconnected, streams, flights, roundRobinIndex, pc,
                   providerOrder, idx, lastError, errors, result, clientVars, emitter,
                   cacheVars, heads, storeVars>>

\* chatCompletionStream reads one more network chunk of the response body
\* and yields the chunks of the lines it completes
ClientBody(c) ==
    /\ pc = "idle"
    /\ config.impl = "node"
    /\ calls # <<>>
    /\ calls[1].stream
    /\ Len(body) < MaxBody
    /\ ~parseBody(body, ParserInit).returned
    /\ body' = Append(body, c)
    /\ LET yielded == parseBody(body', ParserInit).yielded
       IN  out' = [i \in DOMAIN yielded |-> [from |-> calls[1].provider, chunk |-> yielded[i]]]
    /\ UNCHANGED <<config, registry, disconnected, streams, flights, roundRobinIndex, pc, req,
                   providerOrder, idx, lastError, calls, errors, result, clientVars,
                   emitter, cacheVars, heads, storeVars>>

NextClient ==
    \/ \E r \in ClientRequests, stream \in BOOLEAN : ClientSend(r, "groq", stream)
    \/ \E c \in BodyChunks : ClientBody(c)

\* the provider client, called with any request
SpecClient == InitClient /\ [][NextClient]_vars

\* the fields that are not part of the cache key
IgnoredFields == {"provider", "cache", "stream", "user"}

\* the two requests differ at most in fields that are not part of the key
SameKeyFields(r1, r2) == \A f \in DOMAIN r1 \ IgnoredFields : r1[f] = r2[f]

\* C14: the key generateCacheKey made for a request is the key it makes for
\* every request that differs from it only in provider, cache, stream or
\* user, on the Node server and on the Workers.
C14_KeyIgnoresGatewayFields ==
    \A i \in DOMAIN cacheOps :
        \A r \in ComponentRequests :
            SameKeyFields(req, r) => generateCacheKey(config.impl, r) = cacheOps[i].key

\* a key was made for a streaming request with user, provider and cache set
C14_Witness ==
    /\ cacheOps # <<>>
    /\ req.user = "u1"
    /\ req.provider = "groq"
    /\ req.cache = "true"
    /\ req.stream
    /\ req.temperature = "0.7"
    /\ config.impl = "workers"

\* C15: when caching is disabled, or the request has cache: false, or the
\* request has stream: true, get returns nothing, set writes nothing, and
\* the backend is neither read nor written.
C15_BypassConditions ==
    /\ [](req.endpoint = "chat"
            /\ (~isEnabled(config) \/ req.cache = "false" \/ req.stream)
          => (cacheOps = <<>> /\ cached = NoResponse))
    /\ [][(~isEnabled(config) \/ req'.cache = "false" \/ req'.stream) => store' = store]_vars

\* C19: the body the provider client posts upstream has neither provider
\* nor cache, and its stream field is false when the unary function was
\* called and true when the streaming function was called, whatever the
\* request's own stream field.
C19_UpstreamBody ==
    \A i \in DOMAIN calls :
        /\ "provider" \notin DOMAIN calls[i].body
        /\ "cache" \notin DOMAIN calls[i].body
        /\ calls[i].body.stream = calls[i].stream

\* the unary function was called with a request that has provider, cache
\* and stream: true
C19_Witness ==
    /\ calls # <<>>
    /\ ~calls[1].stream
    /\ req.stream
    /\ req.provider = "groq"
    /\ req.cache = "true"
    /\ calls[1].body.user = "u1"

RECURSIVE Flatten(_)
\* the text the network chunks make up
Flatten(chunks) == IF chunks = <<>> THEN <<>> ELSE Head(chunks) \o Flatten(Tail(chunks))

\* the lines of the body read so far that ended with a line feed
CompleteLines ==
    LET lines == split(Flatten(body), <<>>, <<>>)
    IN  SubSeq(lines, 1, Len(lines) - 1)

\* what a line of the upstream body is
LineKind(line) ==
    LET t == trim(line)
    IN  IF t = <<>> THEN "blank"
        ELSE IF Head(t) = ":" THEN "comment"
        ELSE IF t = <<"data:", "SP", "[DONE]">> THEN "done"
        ELSE IF ~startsWithData(t) THEN "other"
        ELSE IF JSONparse(SubSeq(t, 3, Len(t))).ok THEN "chunk"
        ELSE "malformed"

RECURSIVE ChunksBeforeDone(_)
\* the chunks of the well-formed data lines before the first [DONE] line
ChunksBeforeDone(lines) ==
    IF lines = <<>> \/ LineKind(Head(lines)) = "done" THEN <<>>
    ELSE (IF LineKind(Head(lines)) = "chunk"
          THEN <<JSONparse(SubSeq(trim(Head(lines)), 3, Len(trim(Head(lines))))).value>>
          ELSE <<>>) \o ChunksBeforeDone(Tail(lines))

\* C20: the chunks the SSE parser has yielded are the chunks of the
\* well-formed data lines read before the first data: [DONE] line, in the
\* order of the body: blank lines, comment lines and malformed data lines
\* yield nothing and do not end the stream, and nothing after [DONE] is
\* yielded.
C20_SseParser ==
    (calls # <<>> /\ calls[1].stream /\ config.impl = "node") =>
        [i \in DOMAIN out |-> out[i].chunk] = ChunksBeforeDone(CompleteLines)

\* a malformed line, then a chunk, then a blank line, then [DONE] followed
\* by another chunk: one chunk was yielded
C20_Witness ==
    /\ Len(out) = 1
    /\ \E i, j, k, l \in DOMAIN CompleteLines :
        /\ i < j /\ j < k /\ k < l
        /\ LineKind(CompleteLines[i]) = "malformed"
        /\ LineKind(CompleteLines[j]) = "chunk"
        /\ LineKind(CompleteLines[k]) = "blank"
        /\ LineKind(CompleteLines[l]) = "done"
        /\ l < Len(CompleteLines)
        /\ LineKind(CompleteLines[l + 1]) = "chunk"

\* at most this many choices in one upstream response
MaxChoices == 2

\* the choices an upstream response carries: no, one or two tool calls,
\* with content or without
AdapterChoices ==
    {ChatChoice(t, c) :
        t \in {<<>>,
               <<ToolCall("call_1", "f", <<"x">>)>>,
               <<ToolCall("call_1", "f", <<"x">>), ToolCall("call_2", "g", <<>>)>>},
        c \in {<<>>, <<"a">>, <<"b">>, <<"a", "b">>}}

\* fromOpenAIChatResponse is called with a response of these choices
Convert(choices) ==
    /\ pc = "idle"
    /\ Len(choices) <= MaxChoices
    /\ LET response == [model |-> "llama-3.3-70b-versatile", provider |-> "groq",
                        choices |-> choices]
       IN  /\ result' = Returned(response)
           /\ reply' = Reply(200, <<>>, fromOpenAIChatResponse(response, "llama-70b"))
    /\ UNCHANGED <<config, registry, disconnected, streams, flights, roundRobinIndex, pc, req,
                   providerOrder, idx, lastError, calls, errors, out, written, ended,
                   emitter, cacheVars, heads, storeVars, body>>

NextAdapter ==
    \E n \in 0..MaxChoices : \E choices \in [1..n -> AdapterChoices] : Convert(choices)

InitAdapter ==
    /\ config \in ConfigsResp
    /\ Start

\* the adapter's unary conversion, called with any response
SpecAdapter == InitAdapter /\ [][NextAdapter]_vars

\* the number of output items a choice stands for
ItemCount(choice) == Len(choice.tool_calls) + (IF choice.content # <<>> THEN 1 ELSE 0)

RECURSIVE ItemsBefore(_, _)
\* the number of output items the choices before the k-th stand for
ItemsBefore(choices, k) ==
    IF k <= 1 THEN 0 ELSE ItemsBefore(choices, k - 1) + ItemCount(choices[k - 1])

\* C22: the output of fromOpenAIChatResponse is, choice by choice in
\* order, one completed function_call item per tool call with its call_id,
\* name and arguments unchanged, then a message item with the choice's
\* content exactly when the content is not empty, and nothing else.
C22_ToolCallsBeforeMessage ==
    result.kind = "response" =>
        LET choices == result.response.choices
            output == reply.response.output
        IN  /\ Len(output) = ItemsBefore(choices, Len(choices) + 1)
            /\ \A k \in DOMAIN choices :
                LET at == ItemsBefore(choices, k)
                    calls_k == choices[k].tool_calls
                IN  /\ \A j \in DOMAIN calls_k :
                        /\ output[at + j].type = "function_call"
                        /\ output[at + j].status = "completed"
                        /\ output[at + j].call_id = calls_k[j].id
                        /\ output[at + j].name = calls_k[j].name
                        /\ output[at + j].payload = calls_k[j].arguments
                    /\ choices[k].content # <<>> =>
                        /\ output[at + Len(calls_k) + 1].type = "message"
                        /\ output[at + Len(calls_k) + 1].status = "completed"
                        /\ output[at + Len(calls_k) + 1].payload = choices[k].content

\* a choice with two tool calls and text, after a choice with text only
C22_Witness ==
    /\ result.kind = "response"
    /\ Len(result.response.choices) = 2
    /\ result.response.choices[1].tool_calls = <<>>
    /\ result.response.choices[1].content = <<"b">>
    /\ Len(result.response.choices[2].tool_calls) = 2
    /\ result.response.choices[2].content = <<"a", "b">>
    /\ Len(reply.response.output) = 4
    /\ reply.response.output[4].type = "message"

\* at most this many responses are stored in one run
MaxIssued == 2

\* the Node server with the memory cache and the Workers with the KV
\* binding, under two strategies
ConfigsStore ==
    {[impl |-> i, enabled |-> {"groq", "together"}, strategy |-> s,
      fallback_chain |-> <<"groq", "together", "cerebras">>,
      cache |-> CacheConfig(TRUE, IF i = "node" THEN "memory" ELSE "kv")] :
        i \in {"node", "workers"}, s \in {"first-available", "round-robin"}}

\* an input array: a message whose content is a string, and the output of
\* a function call
ArrayInput ==
    Input("array", <<>>,
          <<MessageInput("user", <<Part("string", <<"q">>)>>),
            FunctionCallOutput("call_1", <<"r">>)>>)

\* /v1/responses bodies, with and without previous_response_id, and
\* bodies of both endpoints that lack a required field
StoreRequests ==
    {[Request("responses", s, "llama-70b", Null, TRUE)
        EXCEPT !.input = i, !.previous_response_id = p] :
        s \in BOOLEAN, i \in {Input("string", <<"hi">>, <<>>), ArrayInput},
        p \in {Absent} \cup (1..MaxIssued)}
    \cup {[Request("responses", FALSE, Null, Null, TRUE) EXCEPT !.previous_response_id = 1],
          [Request("responses", TRUE, "llama-70b", Null, TRUE)
              EXCEPT !.input = NoInput, !.previous_response_id = 1],
          [Request("responses", FALSE, "llama-70b", Null, TRUE)
              EXCEPT !.input = Input("string", <<>>, <<>>)]}
    \cup {Request("chat", FALSE, "llama-70b", Null, TRUE),
          Request("chat", TRUE, Null, Null, TRUE),
          [Request("chat", FALSE, "llama-70b", Null, TRUE) EXCEPT !.messages = Null],
          [Request("chat", TRUE, "llama-70b", Null, TRUE) EXCEPT !.messages = "[]"]}

\* what the upstream answers: text, a tool call followed by text, an error
StoreAnswers ==
    {[Answer(FALSE, "200", TRUE, Null) EXCEPT !.choices = c] :
        c \in {<<ChatChoice(<<>>, <<"a">>)>>,
               <<ChatChoice(<<ToolCall("call_1", "f", <<"x">>)>>, <<"b">>)>>}}
    \cup {Answer(FALSE, "503", FALSE, Null)}

InitStore ==
    /\ config \in ConfigsStore
    /\ Start

\* the ttl of an entry of the response store has passed
ExpireResponse ==
    /\ pc = "idle"
    /\ \E i \in DOMAIN responseStore :
        responseStore' = SelectSeq(responseStore, LAMBDA e : e.id # responseStore[i].id)
    /\ UNCHANGED <<config, registry, disconnected, streams, flights, routerVars, clientVars,
                   emitter, cacheVars, heads, body, issued, normalizedInput>>

\* the request is one whose response will not be stored, or fewer than
\* MaxIssued responses have been stored
WithinIssued(r) ==
    \/ issued < MaxIssued
    \/ r.endpoint = "chat"
    \/ Validate(r) # "ok"
    \/ r.previous_response_id # Absent
         /\ ~responseStoreHas(responseStore, r.previous_response_id)

NextStore ==
    \/ \E r \in StoreRequests : WithinIssued(r) /\ Receive(r)
    \/ \E a \in StoreAnswers : Answered(a)
    \/ \E c \in ChatChunks : StreamChunk(c)
    \/ \E done \in BOOLEAN : StreamEnd(done)
    \/ StreamError
    \/ Return
    \/ ExpireResponse

\* /v1/responses with the response store, and the validation of both
\* endpoints, on the Node server
SpecStore == InitStore /\ [][NextStore]_vars

\* the input item an output item is projected to: the text of a message
\* as an input_text part, a function call as a function_call_output with
\* its call_id and the empty output
ProjectedItem(item) ==
    IF item.type = "message"
    THEN [type |-> "message", role |-> "assistant",
          content |-> <<[type |-> "input_text", text |-> item.payload]>>,
          call_id |-> Null, output |-> <<>>]
    ELSE [type |-> "function_call_output", role |-> Null, content |-> <<>>,
          call_id |-> item.call_id, output |-> <<>>]

\* the entries of the response store under this id
EntriesOf(id) == {responseStore[i] : i \in {j \in DOMAIN responseStore : responseStore[j].id = id}}

\* a step in which the Node /v1/responses handler takes up a request that
\* has the required fields and a previous_response_id
TakesUpContinuation ==
    /\ pc = "idle"
    /\ pc' # "idle"
    /\ req'.endpoint = "responses"
    /\ req'.model # Null
    /\ req'.input.kind \in {"string", "array"}
    /\ req'.input.text # <<>> \/ req'.input.kind = "array"
    /\ req'.previous_response_id # Absent

\* the handler expands the input of the continuation it takes up, or
\* rejects it
ExpandsOrRejects ==
    TakesUpContinuation =>
        IF EntriesOf(req'.previous_response_id) # {}
        THEN \E e \in EntriesOf(req'.previous_response_id) :
                /\ normalizedInput' =
                     e.input
                     \o [i \in DOMAIN e.response.output |->
                            ProjectedItem(e.response.output[i])]
                     \o normalizeInput(req'.input)
                /\ reply'.status # 404
        ELSE /\ reply'.status = 404
             /\ pc' = "done"
             /\ calls' = <<>>

\* C21: when a /v1/responses request names a previous_response_id that the
\* response store holds, the input handed to the adapter is the stored
\* input, then the stored output items projected to input items, then the
\* new input; when the store does not hold the id, the reply is 404 and no
\* provider is invoked.
C21_PreviousResponseExpanded ==
    /\ [][ExpandsOrRejects]_vars
    /\ [](reply.status = 404 => calls = <<>>)

\* the same of the Node server alone, whose handler has the response store
C21_NodeExpandsPrevious ==
    [][config.impl = "node" => ExpandsOrRejects]_vars

\* a continuation whose stored response had a function call and a message:
\* the adapter's input is the stored input, the two projected items and
\* the two new items, and a provider was invoked
C21_Witness ==
    /\ req.previous_response_id = 1
    /\ Len(normalizedInput) = 5
    /\ normalizedInput[2].type = "function_call_output"
    /\ normalizedInput[2].call_id = "call_1"
    /\ normalizedInput[3].role = "assistant"
    /\ normalizedInput[4].role = "user"
    /\ calls # <<>>

\* a continuation that names an id the store does not hold was answered 404
C21_WitnessNotFound ==
    /\ req.previous_response_id = 1
    /\ issued = 1
    /\ reply.status = 404
    /\ pc = "done"

\* the body lacks a field its endpoint requires
MissingField(r) ==
    \/ r.model = Null
    \/ r.endpoint = "chat" /\ r.messages \in {Null, "[]"}
    \/ r.endpoint = "responses" /\ r.input \in {NoInput, Input("string", <<>>, <<>>)}

\* C28: a request that lacks model, messages or input is answered 400, and
\* a request answered 400 or 404 is answered in the step that takes it up:
\* no provider is invoked, and the cache, the response store and the
\* round-robin counters are as they were before.
C28_RejectedImmediately ==
    /\ [][(pc = "idle" /\ pc' # "idle") =>
            /\ MissingField(req') => reply'.status = 400
            /\ reply'.status \in {400, 404} =>
                  /\ pc' = "done"
                  /\ ended'
                  /\ calls' = <<>>
                  /\ cacheOps' = <<>>
                  /\ store' = store
                  /\ responseStore' = responseStore
                  /\ roundRobinIndex' = roundRobinIndex]_vars
    /\ [](reply.status \in {400, 404} => calls = <<>> /\ pc = "done")

\* a continuation of a response the store no longer holds was rejected
\* while the cache, the response store and a round-robin counter had content
C28_Witness ==
    /\ reply.status = 404
    /\ req.previous_response_id = 1
    /\ responseStore # <<>>
    /\ store # {}
    /\ roundRobinIndex["llama-70b"] # Absent
    /\ calls = <<>>

\* a chat request with an empty messages array was rejected in that state
C28_WitnessValidation ==
    /\ reply.status = 400
    /\ req.messages = "[]"
    /\ store # {}
    /\ roundRobinIndex["llama-70b"] # Absent
    /\ calls = <<>>

\* ------------------------------------------------------------------------
\* Streaming replies and the client's connection
\* ------------------------------------------------------------------------

\* both deployments, caching off
ConfigsStream ==
    {[impl |-> i, enabled |-> {"groq", "together"}, strategy |-> "first-available",
      fallback_chain |-> <<"groq", "together", "cerebras">>, cache |-> CacheOff] :
        i \in {"node", "workers"}}

\* bodies with stream: true of both endpoints; one names a provider that
\* is not enabled, one has an input item that does not convert
StreamRequests ==
    {Request(e, TRUE, "llama-70b", p, TRUE) :
        e \in {"chat", "responses"}, p \in {Null, "cerebras"}}
    \cup {Request("responses", TRUE, "llama-70b", Null, FALSE)}

InitStream ==
    /\ config \in ConfigsStream
    /\ Start

\* The client closes the connection while the reply streams.  The Node
\* handlers have no listener for it and pass no signal to the provider
\* client: nothing but the socket changes, and reply.raw.write to the
\* destroyed socket is dropped without an error.  On the Workers the
\* runtime cancels the body the reply pipes, which is the upstream's.
ClientDisconnect ==
    /\ pc = "stream"
    /\ ~disconnected
    /\ disconnected' = TRUE
    /\ IF config.impl = "workers"
       THEN /\ pc' = "done"
            /\ result' = [kind |-> "aborted", site |-> "client", message |-> <<>>,
                          response |-> NoResponse]
            /\ ended' = TRUE
       ELSE UNCHANGED <<pc, result, ended>>
    /\ UNCHANGED <<config, registry, streams, flights, roundRobinIndex, req, providerOrder, idx,
                   lastError, calls, errors, out, reply, written, emitter, cacheVars,
                   heads, body, storeVars>>

NextStream ==
    \/ \E r \in StreamRequests : WithinIssued(r) /\ Receive(r)
    \/ \E a \in Answers : Answered(a)
    \/ \E c \in ChatChunks : StreamChunk(c)
    \/ \E done \in BOOLEAN : StreamEnd(done)
    \/ StreamError
    \/ ClientDisconnect
    \/ Return

\* streaming requests of both endpoints on both deployments, with clients
\* that go away
SpecStream == InitStream /\ [][NextStream]_vars

\* the streaming request in flight has failed: the router threw, or the
\* upstream's body broke under the reply
StreamFailed ==
    /\ req.stream
    /\ pc = "done"
    /\ ~disconnected
    /\ result.kind \in {"error", "aborted"}

\* the last frame written is the endpoint's error frame
ErrorFrameLast ==
    /\ written # <<>>
    /\ Last(written).type = IF req.endpoint = "responses" THEN "response.failed"
                            ELSE "error"

\* C23: when routing or the upstream fails during a streaming request, the
\* last frame the client receives is an error frame (response.failed on
\* /v1/responses, a data frame with an error object on
\* /v1/chat/completions), and the stream is ended.
C23_ErrorFrameThenEnd ==
    StreamFailed => ErrorFrameLast /\ ended

\* the same of the Node server alone
C23_NodeErrorFrameThenEnd ==
    (config.impl = "node" /\ StreamFailed) => ErrorFrameLast /\ ended

\* the streaming request in flight has been served to the end of the
\* upstream's stream
StreamCompleted ==
    /\ req.stream
    /\ pc = "done"
    /\ ~disconnected
    /\ result.kind = "stream_end"

\* the frames written carry the chunks the router yielded, one each, in
\* order
OneFramePerChunk ==
    LET frames == SelectSeq(written, LAMBDA f : f.type = "chunk")
    IN  /\ Len(frames) = Len(out)
        /\ \A i \in DOMAIN out : frames[i].chunk = out[i].chunk

\* C24: a Chat-Completions stream served to its end consists of one data
\* frame per upstream chunk, in upstream order, followed by data: [DONE];
\* an OpenResponses stream served to its end ends with data: [DONE] as
\* well.
C24_FramesThenDone ==
    StreamCompleted =>
        /\ written # <<>>
        /\ Last(written) = DoneFrame
        /\ req.endpoint = "chat" =>
              /\ OneFramePerChunk
              /\ Len(written) = Len(out) + 1

\* the same of the Node server alone
C24_NodeFramesThenDone ==
    (config.impl = "node" /\ StreamCompleted) =>
        /\ written # <<>>
        /\ Last(written) = DoneFrame
        /\ req.endpoint = "chat" =>
              /\ OneFramePerChunk
              /\ Len(written) = Len(out) + 1

\* C25: once the client has disconnected from a streaming reply, the
\* upstream call is no longer open, no further chunk is pulled from the
\* provider, and no further upstream call is made for the request.
C25_DisconnectAborts ==
    /\ [](disconnected => pc = "done")
    /\ [][(disconnected /\ disconnected') => out' = out /\ calls' = calls]_vars

\* the same of the Workers alone, where the runtime cancels the piped body
C25_WorkersDisconnectAborts ==
    /\ [](config.impl = "workers" /\ disconnected => pc = "done")
    /\ [][(config.impl = "workers" /\ disconnected /\ disconnected') =>
            out' = out /\ calls' = calls]_vars

\* ------------------------------------------------------------------------
\* Startup: the provider registry and the authentication of the GET routes
\* ------------------------------------------------------------------------

\* at most this many provider blocks in a Node configuration
MaxBlocks == 2

\* a provider's block of the configuration (ProviderConfig); api_key is
\* "" when the variable it names is not in the environment
ProviderBlock(name, enabled, api_key) ==
    [name |-> name, enabled |-> enabled, api_key |-> api_key]

\* the sequences of at most n blocks of different providers, in any order
RECURSIVE BlockSeqs(_)
BlockSeqs(n) ==
    IF n = 0 THEN {<<>>}
    ELSE LET shorter == BlockSeqs(n - 1)
         IN  shorter \cup
             {Append(b, ProviderBlock(name, e, k)) :
                b \in {x \in shorter : Len(x) = n - 1},
                name \in ProviderSet, e \in BOOLEAN, k \in {"", "key"}}

\* mutant: a block with an API key is registered whatever its enabled says
ProviderRegistry_KeyOnly(providers) ==
    LET kept == SelectSeq(providers, LAMBDA b : b.api_key # "")
    IN  [i \in DOMAIN kept |-> kept[i].name]

\* new ProviderRegistry(config): the names of the blocks that are enabled
\* and have an API key, in the order of Object.entries(config.providers)
ProviderRegistry(providers) ==
    LET kept == SelectSeq(providers, LAMBDA b : b.enabled /\ b.api_key # "")
    IN  [i \in DOMAIN kept |-> kept[i].name]

\* the Workers' PROVIDER_CONFIGS with the API keys of the environment keys
EnvBlocks(keys) ==
    [i \in DOMAIN ProviderNames |-> ProviderBlock(ProviderNames[i], TRUE, keys[i])]

\* the Workers' getEnabledProviders(env): the providers whose API key is in
\* the environment, in the order of the if statements
getEnabledProvidersOfEnv(providers) ==
    LET kept == SelectSeq(providers, LAMBDA b : b.api_key # "")
    IN  [i \in DOMAIN kept |-> kept[i].name]

\* AuthConfig: the single key (Null: none) and the keys of api_keys, one
\* of which may be empty
AuthConfigs == [api_key : {Null, "k1"}, api_keys : {<<>>, <<"k2">>, <<"">>}]

\* buildKeyMap: the keys that are accepted
buildKeyMap(auth) ==
    (IF auth.api_key # Null THEN {auth.api_key} ELSE {})
    \cup {auth.api_keys[i] : i \in {j \in DOMAIN auth.api_keys : auth.api_keys[j] # ""}}

\* the deployments as they start: the Node server only with a provider
\* that is enabled and has an API key (validateConfig)
ConfigsBoot ==
    {[impl |-> "node", providers |-> b, auth |-> a] :
        b \in {x \in BlockSeqs(MaxBlocks) :
                  /\ \A i, j \in DOMAIN x : x[i].name = x[j].name => i = j
                  /\ \E i \in DOMAIN x : x[i].enabled /\ x[i].api_key # ""},
        a \in AuthConfigs}
    \cup
    {[impl |-> "workers", providers |-> EnvBlocks(k), auth |-> a] :
        k \in [DOMAIN ProviderNames -> {"", "key"}], a \in AuthConfigs}

InitBoot ==
    /\ config \in ConfigsBoot
    /\ registry = IF config.impl = "node" THEN ProviderRegistry(config.providers)
                  ELSE getEnabledProvidersOfEnv(config.providers)
    /\ streams = <<>>
    /\ Idle

\* the GET routes
GetRoutes == {"/health", "/health/providers", "/v1/models"}

\* the Authorization header: none (<<>>), "Bearer <key>" or "<key>"
AuthHeaders == {<<>>, <<"Bearer", "k1">>, <<"k2">>, <<"Bearer", "bad">>}

\* the routes the authentication runs before: the Node server adds the
\* middleware as a preHandler hook of the whole server, the Workers use it
\* on /v1/* only
Authenticated(cfg, route) == cfg.impl = "node" \/ route = "/v1/models"

\* authMiddleware and validateAuth: 0 when the request may pass, else 401
authMiddleware(auth, authHeader) ==
    LET keyMap == buildKeyMap(auth)
        providedKey == IF authHeader[1] = "Bearer" THEN authHeader[2] ELSE authHeader[1]
    IN  IF keyMap = {} THEN 0
        ELSE IF authHeader = <<>> THEN 401
        ELSE IF providedKey \notin keyMap THEN 401
        ELSE 0

\* A GET request arrives and is answered: by the authentication with 401,
\* or by the route's handler, /health with the status and the two other
\* routes with what registry.getAll() lists.
ServeGet(route, authHeader) ==
    /\ pc = "idle"
    /\ pc' = "done"
    /\ req' = [endpoint |-> route, authorization |-> authHeader, stream |-> FALSE]
    /\ reply' = IF Authenticated(config, route) /\ authMiddleware(config.auth, authHeader) = 401
                THEN Reply(401, <<"authentication_error">>, NoResponse)
                ELSE IF route = "/health" THEN Reply(200, <<"ok">>, NoResponse)
                ELSE Reply(200, registry, NoResponse)
    /\ ended' = TRUE
    /\ UNCHANGED <<config, registry, disconnected, streams, flights, roundRobinIndex,
                   providerOrder, idx, lastError, calls, errors, out, result, written,
                   emitter, cacheVars, heads, body, storeVars>>

NextBoot ==
    \/ \E route \in GetRoutes, h \in AuthHeaders : ServeGet(route, h)
    \/ Return

\* the GET routes of both deployments after startup
SpecBoot == InitBoot /\ [][NextBoot]_vars

\* C26: GET /health and GET /health/providers without an Authorization
\* header are answered with the health reply, never with 401, whether or
\* not API keys are configured.
C26_HealthPublic ==
    (/\ pc = "done"
     /\ req.endpoint \in {"/health", "/health/providers"}
     /\ req.authorization = <<>>) => reply.status = 200

\* the same of the Workers alone
C26_WorkersHealthPublic ==
    (/\ config.impl = "workers"
     /\ pc = "done"
     /\ req.endpoint \in {"/health", "/health/providers"}
     /\ req.authorization = <<>>) => reply.status = 200

\* the positions in the configuration of the blocks of this provider
BlocksOf(name) == {i \in DOMAIN config.providers : config.providers[i].name = name}

\* the registry lists each provider once, in the order of the configuration
InConfigurationOrder ==
    \A i, j \in DOMAIN registry :
        i < j => \E a \in BlocksOf(registry[i]), b \in BlocksOf(registry[j]) : a < b

\* C27 as stated: a provider is in the registry if and only if its block
\* is present and carries a non-empty API key; the registry is in
\* configuration order and never changes.
C27_RegistryStated ==
    /\ [](\A name \in ProviderSet :
            (\E i \in DOMAIN registry : registry[i] = name)
                <=> \E b \in BlocksOf(name) : config.providers[b].api_key # "")
    /\ [](InConfigurationOrder)
    /\ [][registry' = registry]_vars

\* C27: a provider is in the registry if and only if its block is present,
\* is not switched off by enabled: false and carries a non-empty API key;
\* the registry lists the providers in configuration order and is never
\* changed after construction.
C27_Registry ==
    /\ [](\A name \in ProviderSet :
            (\E i \in DOMAIN registry : registry[i] = name)
                <=> \E b \in BlocksOf(name) : /\ config.providers[b].api_key # ""
                                              /\ config.providers[b].enabled)
    /\ [](InConfigurationOrder)
    /\ [][registry' = registry]_vars

\* GET /health/providers has listed the registry of a configuration whose
\* first block is switched off though it has a key
C27_Witness ==
    /\ pc = "done"
    /\ req.endpoint = "/health/providers"
    /\ reply.message = registry
    /\ registry = <<"groq">>
    /\ config.providers = <<ProviderBlock("together", FALSE, "key"),
                            ProviderBlock("groq", TRUE, "key")>>

\* the events written that belong to an output item
ItemEvents == SelectSeq(EventsWritten, LAMBDA e : e.item_id # "none")

\* C29: all events of one output item of an OpenResponses stream (its
\* output_item.added, its deltas, its text / arguments done events and its
\* output_item.done) carry the same output_index, and the events of two
\* different items carry different ones.
C29_OutputIndexPerItem ==
    \A i, j \in DOMAIN ItemEvents :
        (ItemEvents[i].item_id = ItemEvents[j].item_id)
            <=> (ItemEvents[i].output_index = ItemEvents[j].output_index)

\* ------------------------------------------------------------------------
\* Several OpenResponses streams served at once
\* ------------------------------------------------------------------------

\* the number of streamToEvents calls that run at once
MaxStreams == 2

\* at most this many chunks are pulled by one of them
MaxPulls == 2

StreamIds == 1..MaxStreams

\* a streamToEvents call: not yet made ("new"), suspended at a yield or at
\* the pull of the next chunk ("open"), or returned ("closed"); its locals;
\* the events it has yielded; the number of chunks it has pulled
Generator(phase, st, ev, n) == [phase |-> phase, st |-> st, ev |-> ev, n |-> n]

\* the chunks the upstreams of these streams send
ConcurrentChunks ==
    {<<Choice(<<ToolCallDelta("call_1", "f", <<"x">>)>>, <<>>, Null)>>,
     <<Choice(<<>>, <<"a">>, Null)>>,
     <<Choice(<<>>, <<>>, "stop")>>}

RECURSIVE SumOfEvents(_, _)
SumOfEvents(ss, k) == IF k = 0 THEN 0 ELSE Len(ss[k].ev) + SumOfEvents(ss, k - 1)

\* mutant: sequenceNumber is a variable of the module, which every call
\* increments
locals_SharedSequenceNumber(ss, s) ==
    [ss[s].st EXCEPT !.sequenceNumber = SumOfEvents(ss, Len(ss))]

\* the locals a call resumes with: the let variables of its own invocation
\* of the generator function
locals(ss, s) == ss[s].st

\* the Node server with no streamToEvents call made yet
InitConcurrent ==
    /\ config \in ConfigsResp
    /\ registry = getEnabledProviders(config)
    /\ streams = [s \in StreamIds |-> Generator("new", EmitterInit, <<>>, 0)]
    /\ Idle

\* the rest of the state, which the generators do not touch
BesidesStreams ==
    <<config, registry, routerVars, clientVars, emitter, cacheVars, heads, body, storeVars,
      disconnected, flights>>

\* A handler calls streamToEvents and takes the events up to the pull of
\* the first chunk: the call initialises its locals and yields
\* response.created and response.in_progress.
CallGenerator(s) ==
    /\ streams[s].phase = "new"
    /\ LET r == EmitOpen(NewEmitter(s))
       IN  streams' = [streams EXCEPT ![s] = Generator("open", r.st, r.ev, 0)]
    /\ UNCHANGED BesidesStreams

\* The chunk stream of call s delivers a chunk: the call resumes and yields
\* the events of the chunk.
PullChunk(s, c) ==
    /\ streams[s].phase = "open"
    /\ streams[s].n < MaxPulls
    /\ LET r == streamToEvents(locals(streams, s), c)
       IN  streams' = [streams EXCEPT ![s] = Generator("open", r.st, @.ev \o r.ev, @.n + 1)]
    /\ UNCHANGED BesidesStreams

\* The chunk stream of call s ends: the call yields response.completed and
\* returns.
EndGenerator(s) ==
    /\ streams[s].phase = "open"
    /\ LET r == OnEnd([st |-> locals(streams, s), ev |-> <<>>])
       IN  streams' = [streams EXCEPT ![s] = Generator("closed", r.st, @.ev \o r.ev, @.n)]
    /\ UNCHANGED BesidesStreams

NextConcurrent ==
    \/ \E s \in StreamIds : CallGenerator(s)
    \/ \E s \in StreamIds, c \in ConcurrentChunks : PullChunk(s, c)
    \/ \E s \in StreamIds : EndGenerator(s)

\* streamToEvents calls of requests served at once, their steps interleaved
\* in any order
SpecConcurrent == InitConcurrent /\ [][NextConcurrent]_vars

\* C30: however the steps of the streams served at once interleave, the
\* k-th event a streamToEvents call has yielded carries sequence_number
\* k - 1.
C30_PrivateSequence ==
    \A s \in StreamIds :
        \A k \in DOMAIN streams[s].ev : streams[s].ev[k].sequence_number = k - 1

\* two calls are suspended in the middle of their streams, each has pulled
\* a chunk and yielded events of it, and one is ahead of the other
C30_Witness ==
    /\ streams[1].phase = "open"
    /\ streams[2].phase = "open"
    /\ streams[1].n = 2
    /\ streams[2].n = 1
    /\ Len(streams[1].ev) > Len(streams[2].ev)
    /\ Len(streams[2].ev) > 2

\* ------------------------------------------------------------------------
\* Several requests routed at once
\* ------------------------------------------------------------------------

\* the number of requests the process takes in, at most
MaxFlights == 3

\* a request in flight: the handler is suspended at `await cache.get(body)`
\* ("get") or at the call of an upstream ("await"), or has returned
\* ("done"); order is the list getProviderOrder returned to it
Flight(request, at, order) == [request |-> request, pc |-> at, order |-> order]

\* deployments whose chain has two, one or none of the enabled providers
ConfigsRace ==
    {c \in Configs :
        /\ c.strategy \in {"round-robin", "first-available"}
        /\ c.fallback_chain = <<"together", "groq">>
        /\ c.enabled \in {{"groq"}, {"groq", "together"}, {"cerebras"}}}

RaceRequests ==
    {Request("chat", s, m, p, TRUE) :
        s \in BOOLEAN, m \in RequestModels, p \in {Null, "groq"}}

InitRace ==
    /\ config \in ConfigsRace
    /\ Start

\* the rest of the state, which is that of the request served alone
BesidesFlights ==
    <<config, registry, pc, req, providerOrder, idx, lastError, calls, errors, out,
      result, clientVars, emitter, cacheVars, heads, body, storeVars, disconnected,
      streams>>

\* routeChatCompletion / routeChatCompletionStream of flight f from the
\* first statement to the first await: getProviderOrder runs to its end,
\* the read of the counter and its write with it, before any other
\* request's code does
Routed(f, o) ==
    Flight(f.request,
           IF RouteStart(config, f.request, o).pc = "await" THEN "await" ELSE "done",
           o.order)

\* A request arrives while others are in flight.  The streaming handlers
\* call the router in the same turn of the event loop; the unary chat
\* handler first awaits the cache lookup.
ArriveFlight(r) ==
    /\ Len(flights) < MaxFlights
    /\ IF r.stream
       THEN \E o \in ProviderOrders(config, roundRobinIndex, r) :
                /\ roundRobinIndex' = o.rr
                /\ flights' = Append(flights, Routed(Flight(r, "get", <<>>), o))
       ELSE /\ flights' = Append(flights, Flight(r, "get", <<>>))
            /\ UNCHANGED roundRobinIndex
    /\ UNCHANGED BesidesFlights

\* The cache lookup of flight i resolves with a miss: its handler resumes
\* and calls the router.
RouteFlight(i) ==
    /\ flights[i].pc = "get"
    /\ \E o \in ProviderOrders(config, roundRobinIndex, flights[i].request) :
        /\ roundRobinIndex' = o.rr
        /\ flights' = [flights EXCEPT ![i] = Routed(@, o)]
    /\ UNCHANGED BesidesFlights

\* The upstream calls of flight i come to their end and its handler
\* returns; the candidate loop does not touch the counters.
AnswerFlight(i) ==
    /\ flights[i].pc = "await"
    /\ flights' = [flights EXCEPT ![i].pc = "done"]
    /\ UNCHANGED <<roundRobinIndex, BesidesFlights>>

NextRace ==
    \/ \E r \in RaceRequests : ArriveFlight(r)
    \/ \E i \in DOMAIN flights : RouteFlight(i)
    \/ \E i \in DOMAIN flights : AnswerFlight(i)

\* chat requests served at once, their handlers interleaved at the awaits
SpecRace == InitRace /\ [][NextRace]_vars

\* the requests for model m that the round-robin ordering has been applied to
Turns(m) ==
    Cardinality({i \in DOMAIN flights :
                    /\ flights[i].pc # "get"
                    /\ flights[i].request.provider = Null
                    /\ flights[i].request.model = m})

\* C31: however the handlers of concurrent requests interleave, under
\* round-robin with N >= 1 available providers every counter that was set
\* is an integer in 0..N-1, and after k requests for model m were ordered
\* by round-robin the counter of m is k mod N: no update is lost.
C31_CounterNotSplit ==
    (config.strategy = "round-robin" /\ Len(Available) >= 1) =>
        \A m \in RequestModels :
            IF Turns(m) = 0 THEN roundRobinIndex[m] = Absent
            ELSE /\ roundRobinIndex[m] \in 0..(Len(Available) - 1)
                 /\ roundRobinIndex[m] = Turns(m) % Len(Available)

\* a unary request is still suspended at its cache lookup while two later
\* requests for the same model were ordered, and the counter has wrapped
C31_Witness ==
    /\ config.strategy = "round-robin"
    /\ Len(Available) = 2
    /\ Len(flights) = 3
    /\ flights[1].pc = "get"
    /\ \A i \in {2, 3} :
        /\ flights[i].pc = "await"
        /\ flights[i].request.provider = Null
        /\ flights[i].request.model = flights[1].request.model
    /\ flights[2].order # flights[3].order
    /\ roundRobinIndex[flights[1].request.model] = 0

\* C32: streamToEvents yields response.created and then
\* response.in_progress before it pulls a chunk, both with the response id
\* of the stream, status in_progress and an empty output; when the chunk
\* stream is empty the events are these two and a response.completed with
\* an empty output, and no other.
C32_OpenEvents ==
    \A s \in StreamIds :
        LET g == streams[s]
        IN  /\ g.phase = "new" => g.ev = <<>>
            /\ g.phase # "new" =>
                /\ Len(g.ev) >= 2
                /\ g.ev[1].type = "response.created"
                /\ g.ev[2].type = "response.in_progress"
                /\ g.ev[1].response_id = g.ev[2].response_id
                /\ \A k \in 1..2 : g.ev[k].status = "in_progress" /\ g.ev[k].output = <<>>
            /\ (g.phase = "open" /\ g.n = 0) => Len(g.ev) = 2
            /\ (g.phase = "closed" /\ g.n = 0) =>
                /\ Len(g.ev) = 3
                /\ g.ev[3].type = "response.completed"
                /\ g.ev[3].output = <<>>

\* one call has returned on an empty chunk stream while another has only
\* yielded its first two events
C32_Witness ==
    /\ streams[1].phase = "closed"
    /\ streams[1].n = 0
    /\ Len(streams[1].ev) = 3
    /\ streams[2].phase = "open"
    /\ streams[2].n = 0

\* the events of type t written for an item of kind k
ItemEventsOf(evs, t, k) == SelectSeq(evs, LAMBDA e : e.type = t /\ e.item = k)

\* the output the events written before response.completed account for:
\* the function call, if one was added, with the argument deltas
\* concatenated, then the message, if one was added, with the text deltas
\* concatenated, each under the id of its response.output_item.added
OutputOfEvents(evs) ==
    LET fc == ItemEventsOf(evs, "response.output_item.added", "function_call")
        msg == ItemEventsOf(evs, "response.output_item.added", "message")
    IN  (IF fc # <<>>
         THEN <<[type |-> "function_call", id |-> fc[1].item_id,
                 payload |-> ConcatPayload(
                     ItemEventsOf(evs, "response.function_call_arguments.delta",
                                  "function_call"))]>>
         ELSE <<>>)
        \o (IF msg # <<>>
            THEN <<[type |-> "message", id |-> msg[1].item_id,
                    payload |-> ConcatPayload(
                        ItemEventsOf(evs, "response.output_text.delta", "message"))]>>
            ELSE <<>>)

\* C33: response.completed carries status completed, the response id of
\* response.created, and as output the function_call item if one was
\* opened, its arguments the concatenation of the argument deltas emitted,
\* followed by the message item if one was opened, its text the
\* concatenation of the text deltas emitted, each with the item id of its
\* response.output_item.added event.
C33_CompletedOutput ==
    LET ev == EventsWritten
    IN  \A c \in DOMAIN ev :
            ev[c].type = "response.completed" =>
                LET expected == OutputOfEvents(SubSeq(ev, 1, c - 1))
                    output == ev[c].output
                IN  /\ ev[c].status = "completed"
                    /\ ev[1].type = "response.created"
                    /\ ev[c].response_id = ev[1].response_id
                    /\ Len(output) = Len(expected)
                    /\ \A k \in DOMAIN output :
                        /\ output[k].type = expected[k].type
                        /\ output[k].id = expected[k].id
                        /\ output[k].payload = expected[k].payload
                        /\ output[k].status = "completed"

\* a stream with a function call of two argument deltas and a message has
\* completed
C33_Witness ==
    /\ EventsWritten # <<>>
    /\ Last(EventsWritten).type = "response.completed"
    /\ Len(Last(EventsWritten).output) = 2
    /\ Last(EventsWritten).output[1].payload = <<"y", "x">>
    /\ Last(EventsWritten).output[2].payload = <<"a">>

\* a step changes the counter of model m
CounterChanged(m) == roundRobinIndex'[m] # roundRobinIndex[m]

\* C34: the round-robin counters change only when a request without
\* request.provider is ordered under the round-robin strategy, and then
\* only the entry of request.model changes; a request with
\* request.provider, and any request under first-available or random,
\* leaves every counter as it was.
C34_CounterFrame ==
    [][\A m \in RequestModels :
          CounterChanged(m) =>
              /\ pc = "idle"
              /\ config.strategy = "round-robin"
              /\ req'.provider = Null
              /\ req'.model = m]_vars

\* under round-robin a request that names its provider is being served
\* after a request for the same model advanced the counter, which still has
\* the value that request left; the other model's counter was never set
C34_Witness ==
    /\ config.strategy = "round-robin"
    /\ Len(Available) = 3
    /\ pc = "await"
    /\ req.provider # Null
    /\ roundRobinIndex[req.model] = 1
    /\ \A m \in RequestModels \ {req.model} : roundRobinIndex[m] = Absent

\* ------------------------------------------------------------------------
\* The cache in front of the round-robin router
\* ------------------------------------------------------------------------

\* the deployments with a cache, routing by round-robin
ConfigsHit ==
    {[c EXCEPT !.strategy = "round-robin"] : c \in {d \in ConfigsCache : d.cache.enabled}}

InitHit ==
    /\ config \in ConfigsHit
    /\ Start

SpecHit == InitHit /\ [][NextCache]_vars

\* the request in flight was answered with what cache.get returned
ServedFromCache == cached # NoResponse

C36_CacheWrittenOnSuccess ==
    /\ [][\A e \in store' \ store :
            /\ pc = "await"
            /\ ~req.stream
            /\ result'.kind = "response"
            /\ e.key = generateCacheKey(config.impl, req)
            /\ e.value \in {result'.response, JsonRoundTrip(result'.response)}]_vars
    /\ [](reply.status = 502 => \A i \in DOMAIN cacheOps : cacheOps[i].op # "set")
    /\ [](\A e \in store : e.value # NoResponse /\ e.value.provider \in ProviderSet)
    /\ [](ServedFromCache => cached.provider \in ProviderSet)

\* a request whose providers all failed has ended with 502 after the
\* lookup missed; the cache holds an earlier request's response and nothing
\* under the key of this one
C36_Witness ==
    /\ reply.status = 502
    /\ ~req.stream
    /\ Len(calls) = 2
    /\ Len(cacheOps) = 1
    /\ store # {}
    /\ Stored = NoResponse

\* C37: every successful non-streaming /v1/chat/completions reply to a
\* request with request.provider = P carries provider = P, whatever
\* requests came before and also when the reply is served from the cache.
C37_ProviderHonoured ==
    (req.endpoint = "chat" /\ ~req.stream /\ req.provider # Null /\ reply.status = 200) =>
        reply.response.provider = req.provider

\* the same, for the replies that the router produced
C37_RoutedProviderHonoured ==
    (req.endpoint = "chat" /\ ~req.stream /\ req.provider # Null /\ reply.status = 200
        /\ ~ServedFromCache) =>
        reply.response.provider = req.provider

\* C38: whatever chunks arrive, a stream has at most one
\* response.output_item.added for a function call and at most one for a
\* message, however many tool calls and choices the chunks carry; every
\* arguments delta, those of a later tool call too, carries the item id of
\* the first function call.
C38_OneItemPerKind ==
    LET ev == EventsWritten
        fc == ItemEventsOf(ev, "response.output_item.added", "function_call")
        msg == ItemEventsOf(ev, "response.output_item.added", "message")
    IN  /\ Len(fc) <= 1
        /\ Len(msg) <= 1
        /\ \A k \in DOMAIN ev :
            ev[k].type = "response.function_call_arguments.delta" =>
                /\ fc # <<>>
                /\ ev[k].item_id = fc[1].item_id

\* the chunks brought tool call call_1, then tool call call_2 with
\* arguments, then two choices with content; one function call and one
\* message were added, and the arguments of call_2 went to the function
\* call opened for call_1
C38_Witness ==
    /\ Len(out) = 3
    /\ Len(out[1].chunk) = 1 /\ Len(out[2].chunk) = 1 /\ Len(out[3].chunk) = 2
    /\ out[1].chunk[1].tool_calls # <<>>
    /\ out[1].chunk[1].tool_calls[1].id = "call_1"
    /\ out[2].chunk[1].tool_calls # <<>>
    /\ out[2].chunk[1].tool_calls[1].id = "call_2"
    /\ Len(ItemEventsOf(EventsWritten, "response.output_item.added", "function_call")) = 1
    /\ Len(ItemEventsOf(EventsWritten, "response.output_item.added", "message")) = 1
    /\ \E k \in DOMAIN EventsWritten :
        /\ EventsWritten[k].type = "response.function_call_arguments.delta"
        /\ EventsWritten[k].payload = <<"y">>
        /\ EventsWritten[k].item_id = "fc_1"

\* the streaming request in flight failed in the router before a chunk
\* was yielded: no candidate was there, or all candidates failed
RoutingFailedBeforeFirstChunk ==
    /\ req.stream
    /\ pc = "done"
    /\ result.kind = "error"
    /\ out = <<>>

\* C39: on the Node server a streaming request of either endpoint has
\* status 200 written before a provider is called, and a routing failure
\* before the first chunk (no provider available, all providers failed)
\* is reported by an error frame on that 200 stream, never by a 502.
C39_StreamErrorsIn200 ==
    config.impl = "node" =>
        /\ (req.stream /\ calls # <<>>) => reply.status = 200
        /\ RoutingFailedBeforeFirstChunk =>
            /\ reply.status = 200
            /\ ErrorFrameLast
            /\ ended

\* on the Node server both candidates of a streaming /v1/responses request
\* failed before a chunk came, and the client has a 200 stream that ends
\* with response.failed
C39_Witness ==
    /\ config.impl = "node"
    /\ req.endpoint = "responses"
    /\ RoutingFailedBeforeFirstChunk
    /\ Len(calls) = 2
    /\ Len(errors) = 2
    /\ reply.status = 200
    /\ Last(written).type = "response.failed"

\* on the Node server a streaming /v1/chat/completions request named a
\* provider that is not enabled: no call was made, and the client has a
\* 200 stream with an error frame
C39_WitnessNoProvider ==
    /\ config.impl = "node"
    /\ req.endpoint = "chat"
    /\ RoutingFailedBeforeFirstChunk
    /\ result.message = NoProvidersAvailable
    /\ calls = <<>>
    /\ reply.status = 200
    /\ Last(written).type = "error"

\* ------------------------------------------------------------------------
\* What the response store is written with

\* the entries this step has put into the response store
Added == Range(responseStore') \ Range(responseStore)

\* the step in which the handler of a /v1/responses request finishes
Finishes == pc # "done" /\ pc' = "done" /\ req'.endpoint = "responses"

\* the response of entry e is the one this step has sent to the client:
\* the body of the reply, or the response of a response.completed event
SentNow(e) ==
    IF req.stream
    THEN \E k \in DOMAIN written' \ DOMAIN written :
            /\ written'[k].type = "response.completed"
            /\ written'[k].response_id = e.response.id
            /\ written'[k].output = e.response.output
    ELSE reply'.status = 200 /\ reply'.response = e.response

\* the request ends in an error reply, or its stream in a failure
EndsFailed ==
    \/ reply'.status # 200
    \/ written' # <<>> /\ Last(written').type \in {"response.failed", "error"}

\* C40: for a /v1/responses request the response store is written at most
\* once and only on success: the one entry is put there in the step in
\* which the handler finishes, under the id of the response sent to the
\* client in that step (the unary body, or the response of the
\* response.completed event) and with the expanded input; a request that
\* fails, or whose stream fails, stores nothing.
C40_StoredOnceOnSuccess ==
    [][/\ issued' # issued <=> Added # {}
       /\ Added # {} =>
            /\ UsesStore(config, req)
            /\ Finishes
            /\ Cardinality(Added) = 1
            /\ issued' = issued + 1
            /\ ~EndsFailed
       /\ \A e \in Added :
            /\ e.id = e.response.id
            /\ SentNow(e)
            /\ e.input = normalizedInput
            /\ e.input = expandInput(responseStore, req)
       /\ Finishes /\ EndsFailed => Added = {} /\ issued' = issued]_vars

\* a unary and a streamed response are stored, the second with an input
\* expanded from the first, and a request has failed
C40_Witness ==
    /\ pc = "done"
    /\ UsesStore(config, req)
    /\ req.stream
    /\ req.previous_response_id = 1
    /\ issued = 2
    /\ \E i \in DOMAIN responseStore :
        /\ responseStore[i].id = 2
        /\ Len(responseStore[i].input) > Len(normalizeInput(req.input))
        /\ Len(responseStore[i].response.output) = 2

\* a /v1/responses request has failed after others were stored
C40_WitnessFailed ==
    /\ pc = "done"
    /\ UsesStore(config, req)
    /\ issued = 1
    /\ reply.status = 502

====
